---------------------------- MODULE Spec2Model ----------------------------
(***************************************************************************)
(* Arena simulation of BombNBreak (src/src/main.c): the tile grid, both    *)
(* players, bomb slots, explosion propagation, the chain queue, tile decay *)
(* with the power-up drop, the round timer and the win flag.               *)
(*                                                                         *)
(* One step of the model is one iteration of the loop in main(): the pads  *)
(* are sampled and the handler of the current screen runs to completion.   *)
(*                                                                         *)
(* Representation.                                                         *)
(*  - A 16x16 field element is addressed by its upper left tile            *)
(*    m = TILE_OFFSET_1(x, y), x and y even.  Every read of the simulation *)
(*    goes to that tile; setField/clearField/nextFieldFrame write the other*)
(*    three tiles of the element together with it.  The grid variables     *)
(*    therefore hold the upper left tile of each stored element.           *)
(*  - The level data (fieldMap) is an input.  The grid variables store the *)
(*    elements of the playable region chosen by the initial predicate; an  *)
(*    element that is not stored is a solid wall (FIELD_SOLID, no timer),  *)
(*    which no operation ever writes.                                      *)
(*  - A pad value is the set of keys that are down (pad & KEY_A is         *)
(*    "A" \in pad).                                                        *)
(*  - lrng() is an external generator: each call returns a value chosen    *)
(*    from Draws.                                                          *)
(*  - Sprite pose (firstFrame, curFrame, flipX, moveAniIdx, ttlFrame), the *)
(*    refresh flags and the status line are presentation and not modelled. *)
(*  - Two history variables record what the explosion code did in the     *)
(*    last frame: visited, the field elements handleExplodedField was      *)
(*    called on, and exploded, the arguments of the handleExplosion calls. *)
(*    A third one, clicks, counts the clickDelay() calls of the options    *)
(*    screen.                                                              *)
(***************************************************************************)
EXTENDS Integers, Sequences, FiniteSets, TLC

(***************************************************************************)
(* Program constants                                                       *)
(***************************************************************************)
MAX_BOMBS == 9
MAX_RANGE == 9
BOMB_TTL == 35
BOOTS_TTL == 150
INVALID_LAST_BOMB_IDX == 255
BOMB_ANIMATION == 2
EXPLOSION_ANIMATION == 1
FP10HZ == 5
DEF_MAX_TIME == 180
DEF_DROP_RATE == 35
DEF_MAX_BOMBS == 5
DEF_MAX_RANGE == 9

P_LEFT == 4
P_RIGHT == 12
P_TOP == 9
P_BOTTOM == 15
P_MID_X == 7
P_MID_Y == 12

S_TITLE == 0
S_OPTIONS == 1
S_GAME == 2
S_PAUSE == 3
S_WINNER == 4
O_TIME == 0
O_DROPRATE == 1
O_BOMBS == 2
O_RANGE == 3

FIELD_EMPTY == 0
FIELD_BOMB_P1 == 8
FIELD_BOMB_P2 == 12
FIELD_PU_BOMB == 40
FIELD_PU_RANGE == 42
FIELD_PU_SPEED == 44
FIELD_SOLID == 104
FIELD_BRICKED == 106
FIELD_EXPL_MID == 32
FIELD_EXPL_PART_X == 64
FIELD_EXPL_END_X == 96
FIELD_EXPL_PART_Y == 128
FIELD_EXPL_END_Y == 160

FTYPE_EMPTY == 0
FTYPE_BOMB_P1 == 1
FTYPE_BOMB_P2 == 2
FTYPE_PU_BOMB == 3
FTYPE_PU_RANGE == 4
FTYPE_PU_SPEED == 5
FTYPE_SOLID == 6
FTYPE_BRICKED == 7
FTYPE_FLAME == 8

WINNER_NA == 0
WINNER_P1 == 1
WINNER_P2 == 2
WINNER_DRAW == 3

\* TILE_ATTR(y, x, prio, palette)
TILE_ATTR(fy, fx, prio, palette) == (fy * 128 + fx * 64 + prio * 32 + palette * 4) % 256

\* TILE_OFFSET_1(x, y): grid index of the upper left tile of field element (x, y)
TILE_OFFSET_1(x, y) == y * 32 + x + 1

\* fieldElemIndex: the field elements the decay loop visits, in source order
fieldElemIndex == <<
    TILE_OFFSET_1( 2,  4), TILE_OFFSET_1( 2,  6), TILE_OFFSET_1( 2,  8), TILE_OFFSET_1( 4,  4),
    TILE_OFFSET_1( 6,  4), TILE_OFFSET_1(22, 24), TILE_OFFSET_1(24, 24), TILE_OFFSET_1(26, 20),
    TILE_OFFSET_1(26, 22), TILE_OFFSET_1(26, 24), TILE_OFFSET_1( 2, 10), TILE_OFFSET_1( 2, 12),
    TILE_OFFSET_1( 2, 14), TILE_OFFSET_1( 2, 16), TILE_OFFSET_1( 2, 18), TILE_OFFSET_1( 2, 20),
    TILE_OFFSET_1( 2, 22), TILE_OFFSET_1( 2, 24), TILE_OFFSET_1( 4,  8), TILE_OFFSET_1( 4, 12),
    TILE_OFFSET_1( 4, 16), TILE_OFFSET_1( 4, 20), TILE_OFFSET_1( 4, 24), TILE_OFFSET_1( 6,  6),
    TILE_OFFSET_1( 6,  8), TILE_OFFSET_1( 6, 10), TILE_OFFSET_1( 6, 12), TILE_OFFSET_1( 6, 14),
    TILE_OFFSET_1( 6, 16), TILE_OFFSET_1( 6, 18), TILE_OFFSET_1( 6, 20), TILE_OFFSET_1( 6, 22),
    TILE_OFFSET_1( 6, 24), TILE_OFFSET_1( 8,  4), TILE_OFFSET_1( 8,  8), TILE_OFFSET_1( 8, 12),
    TILE_OFFSET_1( 8, 16), TILE_OFFSET_1( 8, 20), TILE_OFFSET_1( 8, 24), TILE_OFFSET_1(10,  4),
    TILE_OFFSET_1(10,  6), TILE_OFFSET_1(10,  8), TILE_OFFSET_1(10, 10), TILE_OFFSET_1(10, 12),
    TILE_OFFSET_1(10, 14), TILE_OFFSET_1(10, 16), TILE_OFFSET_1(10, 18), TILE_OFFSET_1(10, 20),
    TILE_OFFSET_1(10, 22), TILE_OFFSET_1(10, 24), TILE_OFFSET_1(12,  4), TILE_OFFSET_1(12,  8),
    TILE_OFFSET_1(12, 12), TILE_OFFSET_1(12, 16), TILE_OFFSET_1(12, 20), TILE_OFFSET_1(12, 24),
    TILE_OFFSET_1(14,  4), TILE_OFFSET_1(14,  6), TILE_OFFSET_1(14,  8), TILE_OFFSET_1(14, 10),
    TILE_OFFSET_1(14, 12), TILE_OFFSET_1(14, 14), TILE_OFFSET_1(14, 16), TILE_OFFSET_1(14, 18),
    TILE_OFFSET_1(14, 20), TILE_OFFSET_1(14, 22), TILE_OFFSET_1(14, 24), TILE_OFFSET_1(16,  4),
    TILE_OFFSET_1(16,  8), TILE_OFFSET_1(16, 12), TILE_OFFSET_1(16, 16), TILE_OFFSET_1(16, 20),
    TILE_OFFSET_1(16, 24), TILE_OFFSET_1(18,  4), TILE_OFFSET_1(18,  6), TILE_OFFSET_1(18,  8),
    TILE_OFFSET_1(18, 10), TILE_OFFSET_1(18, 12), TILE_OFFSET_1(18, 14), TILE_OFFSET_1(18, 16),
    TILE_OFFSET_1(18, 18), TILE_OFFSET_1(18, 20), TILE_OFFSET_1(18, 22), TILE_OFFSET_1(18, 24),
    TILE_OFFSET_1(20,  4), TILE_OFFSET_1(20,  8), TILE_OFFSET_1(20, 12), TILE_OFFSET_1(20, 16),
    TILE_OFFSET_1(20, 20), TILE_OFFSET_1(20, 24), TILE_OFFSET_1(22,  4), TILE_OFFSET_1(22,  6),
    TILE_OFFSET_1(22,  8), TILE_OFFSET_1(22, 10), TILE_OFFSET_1(22, 12), TILE_OFFSET_1(22, 14),
    TILE_OFFSET_1(22, 16), TILE_OFFSET_1(22, 18), TILE_OFFSET_1(22, 20), TILE_OFFSET_1(22, 22),
    TILE_OFFSET_1(24,  4), TILE_OFFSET_1(24,  8), TILE_OFFSET_1(24, 12), TILE_OFFSET_1(24, 16),
    TILE_OFFSET_1(24, 20), TILE_OFFSET_1(26,  4), TILE_OFFSET_1(26,  6), TILE_OFFSET_1(26,  8),
    TILE_OFFSET_1(26, 10), TILE_OFFSET_1(26, 12), TILE_OFFSET_1(26, 14), TILE_OFFSET_1(26, 16),
    TILE_OFFSET_1(26, 18) >>

FIRST_FLEX_FIELD == 10

\* fTypeMap: tile index -> field type; entry i of the C table is fTypeMapTable[i + 1]
fTypeMapTable == <<
    FTYPE_EMPTY, FTYPE_EMPTY, FTYPE_EMPTY, FTYPE_EMPTY,
    FTYPE_EMPTY, FTYPE_EMPTY, FTYPE_EMPTY, FTYPE_EMPTY,
    FTYPE_BOMB_P1, FTYPE_BOMB_P1, FTYPE_BOMB_P1, FTYPE_BOMB_P1,
    FTYPE_BOMB_P2, FTYPE_BOMB_P2, FTYPE_BOMB_P2, FTYPE_BOMB_P2,
    FTYPE_EMPTY, FTYPE_EMPTY, FTYPE_EMPTY, FTYPE_EMPTY,
    FTYPE_EMPTY, FTYPE_EMPTY, FTYPE_EMPTY, FTYPE_EMPTY,
    FTYPE_BOMB_P1, FTYPE_BOMB_P1, FTYPE_BOMB_P1, FTYPE_BOMB_P1,
    FTYPE_BOMB_P2, FTYPE_BOMB_P2, FTYPE_BOMB_P2, FTYPE_BOMB_P2,
    FTYPE_FLAME, FTYPE_FLAME, FTYPE_FLAME, FTYPE_FLAME,
    FTYPE_FLAME, FTYPE_FLAME, FTYPE_FLAME, FTYPE_FLAME,
    FTYPE_PU_BOMB, FTYPE_PU_BOMB, FTYPE_PU_RANGE, FTYPE_PU_RANGE,
    FTYPE_PU_SPEED, FTYPE_PU_SPEED, FTYPE_EMPTY, FTYPE_EMPTY,
    FTYPE_FLAME, FTYPE_FLAME, FTYPE_FLAME, FTYPE_FLAME,
    FTYPE_FLAME, FTYPE_FLAME, FTYPE_FLAME, FTYPE_FLAME,
    FTYPE_PU_BOMB, FTYPE_PU_BOMB, FTYPE_PU_RANGE, FTYPE_PU_RANGE,
    FTYPE_PU_SPEED, FTYPE_PU_SPEED, FTYPE_EMPTY, FTYPE_EMPTY,
    FTYPE_FLAME, FTYPE_FLAME, FTYPE_FLAME, FTYPE_FLAME,
    FTYPE_FLAME, FTYPE_FLAME, FTYPE_FLAME, FTYPE_FLAME,
    FTYPE_EMPTY, FTYPE_EMPTY, FTYPE_EMPTY, FTYPE_EMPTY,
    FTYPE_EMPTY, FTYPE_EMPTY, FTYPE_EMPTY, FTYPE_EMPTY,
    FTYPE_FLAME, FTYPE_FLAME, FTYPE_FLAME, FTYPE_FLAME,
    FTYPE_FLAME, FTYPE_FLAME, FTYPE_FLAME, FTYPE_FLAME,
    FTYPE_EMPTY, FTYPE_EMPTY, FTYPE_EMPTY, FTYPE_EMPTY,
    FTYPE_EMPTY, FTYPE_EMPTY, FTYPE_EMPTY, FTYPE_EMPTY,
    FTYPE_FLAME, FTYPE_FLAME, FTYPE_FLAME, FTYPE_FLAME,
    FTYPE_FLAME, FTYPE_FLAME, FTYPE_FLAME, FTYPE_FLAME,
    FTYPE_SOLID, FTYPE_SOLID, FTYPE_BRICKED, FTYPE_BRICKED,
    FTYPE_BRICKED, FTYPE_BRICKED, FTYPE_BRICKED, FTYPE_BRICKED,
    FTYPE_FLAME, FTYPE_FLAME, FTYPE_FLAME, FTYPE_FLAME,
    FTYPE_FLAME, FTYPE_FLAME, FTYPE_FLAME, FTYPE_FLAME,
    FTYPE_SOLID, FTYPE_SOLID, FTYPE_BRICKED, FTYPE_BRICKED,
    FTYPE_BRICKED, FTYPE_BRICKED, FTYPE_BRICKED, FTYPE_BRICKED,
    FTYPE_FLAME, FTYPE_FLAME, FTYPE_FLAME, FTYPE_FLAME,
    FTYPE_FLAME, FTYPE_FLAME, FTYPE_FLAME, FTYPE_FLAME,
    FTYPE_EMPTY, FTYPE_EMPTY, FTYPE_EMPTY, FTYPE_EMPTY,
    FTYPE_EMPTY, FTYPE_EMPTY, FTYPE_EMPTY, FTYPE_EMPTY,
    FTYPE_FLAME, FTYPE_FLAME, FTYPE_FLAME, FTYPE_FLAME,
    FTYPE_FLAME, FTYPE_FLAME, FTYPE_FLAME, FTYPE_FLAME,
    FTYPE_EMPTY, FTYPE_EMPTY, FTYPE_EMPTY, FTYPE_EMPTY,
    FTYPE_EMPTY, FTYPE_EMPTY, FTYPE_EMPTY, FTYPE_EMPTY,
    FTYPE_FLAME, FTYPE_FLAME, FTYPE_FLAME, FTYPE_FLAME,
    FTYPE_FLAME, FTYPE_FLAME, FTYPE_FLAME, FTYPE_FLAME,
    FTYPE_EMPTY, FTYPE_EMPTY, FTYPE_EMPTY, FTYPE_EMPTY,
    FTYPE_EMPTY, FTYPE_EMPTY, FTYPE_EMPTY, FTYPE_EMPTY,
    FTYPE_FLAME, FTYPE_FLAME, FTYPE_FLAME, FTYPE_FLAME,
    FTYPE_FLAME, FTYPE_FLAME, FTYPE_FLAME, FTYPE_FLAME,
    FTYPE_EMPTY, FTYPE_EMPTY, FTYPE_EMPTY, FTYPE_EMPTY,
    FTYPE_EMPTY, FTYPE_EMPTY, FTYPE_EMPTY, FTYPE_EMPTY >>

fTypeMap(tile) == fTypeMapTable[tile + 1]

(***************************************************************************)
(* State                                                                   *)
(***************************************************************************)
VARIABLES
    gameFieldLow,     \* tile index of each stored field element
    gameFieldHigh,    \* tile attribute of each stored field element
    aniField,         \* remaining animation frames of each field element
    ttlField,         \* ticks until the next animation frame of each field element
    p1, p2,           \* the players (tPlayer)
    bombChain,        \* chain triggered bombs of the current tick
    bombChainCount,   \* number of valid items in bombChain
    winner,           \* WINNER_NA until decided
    screen, option,   \* current screen, selected option
    pad0, pad1,       \* pad values sampled for the current frame
    pausePad,         \* pad that issued the game pause
    gameOver,         \* seconds remaining
    framesUntil10Hz,  \* frames until the next 10Hz tick
    untilSecond,      \* 10Hz ticks until the next full second
    counter10Hz,      \* 10Hz counter
    maxTime, dropRate, dropRate255, maxBombs, maxRange,  \* configuration
    visited,          \* history: field elements handleExplodedField was called on in the last frame
    exploded,         \* history: (x, y, range) of the handleExplosion calls of the last frame, in order
    clicks            \* history: number of clickDelay() calls so far

vars == << gameFieldLow, gameFieldHigh, aniField, ttlField, p1, p2, bombChain,
           bombChainCount, winner, screen, pad0, pad1, pausePad, gameOver,
           framesUntil10Hz, untilSecond, counter10Hz, maxTime, dropRate,
           dropRate255, maxBombs, maxRange, visited, exploded, option, clicks >>

\* The simulation context the handlers work on; the two history fields
\* start empty in every frame.
GS ==
    [ low |-> gameFieldLow, high |-> gameFieldHigh, ani |-> aniField, ttl |-> ttlField,
      p1 |-> p1, p2 |-> p2, bombChain |-> bombChain, bombChainCount |-> bombChainCount,
      winner |-> winner, screen |-> screen, pausePad |-> pausePad, gameOver |-> gameOver,
      framesUntil10Hz |-> framesUntil10Hz, untilSecond |-> untilSecond,
      counter10Hz |-> counter10Hz, maxTime |-> maxTime, dropRate |-> dropRate,
      dropRate255 |-> dropRate255, maxBombs |-> maxBombs, maxRange |-> maxRange,
      visited |-> {}, exploded |-> << >>, option |-> option, clicks |-> clicks ]

Pl(s, n) == IF n = 1 THEN s.p1 ELSE s.p2

SetPl(s, n, pl) == IF n = 1 THEN [s EXCEPT !.p1 = pl] ELSE [s EXCEPT !.p2 = pl]

Min(S) == CHOOSE a \in S : \A b \in S : a <= b

\* The element of a one-element set: { e(t) : t \in {v} } evaluates v once
\* and e on its value, as one statement follows another.
Only(S) == CHOOSE a \in S : TRUE

(***************************************************************************)
(* Field element access                                                    *)
(***************************************************************************)
Low(s, m) == IF m \in DOMAIN s.low THEN s.low[m] ELSE FIELD_SOLID

Ani(s, m) == IF m \in DOMAIN s.ani THEN s.ani[m] ELSE 0

Ttl(s, m) == IF m \in DOMAIN s.ttl THEN s.ttl[m] ELSE 0

\* fTypeMap[*field]
FieldType(s, m) == fTypeMap(Low(s, m))

clearField(s, m) == [s EXCEPT !.low[m] = FIELD_EMPTY]

setField(s, m, offset) == [s EXCEPT !.low[m] = offset % 256]

setFieldFlippedX(s, m, offset) == [s EXCEPT !.low[m] = (offset + 1) % 256]

setFieldFlippedY(s, m, offset) == [s EXCEPT !.low[m] = (offset + 16) % 256]

nextFieldFrame(s, m) == [s EXCEPT !.low[m] = (@ + 2) % 256]

setFieldAttr(s, m, attr) == [s EXCEPT !.high[m] = attr % 256]

(***************************************************************************)
(* Explosion propagation                                                   *)
(***************************************************************************)
\* Variant of triggerBomb that does not credit the owner
triggerBombNoCredit(s, n, x, y) ==
    LET pl  == Pl(s, n)
        hit == { j2 \in 0..(MAX_BOMBS - 1) :
                   /\ pl.bombList[j2].ttl # 0
                   /\ pl.bombList[j2].x = x
                   /\ pl.bombList[j2].y = y }
    IN  IF hit = {} THEN s
        ELSE LET j2  == Min(hit)
                 s2  == SetPl(s, n, [pl EXCEPT !.bombList[j2].ttl = 0])
             IN  [s2 EXCEPT !.bombChain[s.bombChainCount] =
                                [range |-> pl.range, owner |-> n, idx |-> j2],
                            !.bombChainCount = (@ + 1) % 256]

\* Variant of triggerBomb that leaves the timer of the bomb running
triggerBombKeepsTtl(s, n, x, y) ==
    LET pl  == Pl(s, n)
        hit == { j2 \in 0..(MAX_BOMBS - 1) :
                   /\ pl.bombList[j2].ttl # 0
                   /\ pl.bombList[j2].x = x
                   /\ pl.bombList[j2].y = y }
    IN  IF hit = {} THEN s
        ELSE LET j2  == Min(hit)
                 s2  == SetPl(s, n, [pl EXCEPT !.bombs = (@ + 1) % 256])
             IN  [s2 EXCEPT !.bombChain[s.bombChainCount] =
                                [range |-> pl.range, owner |-> n, idx |-> j2],
                            !.bombChainCount = (@ + 1) % 256]

\* Variant of triggerBomb that frees the bomb without queuing it
triggerBombUnqueued(s, n, x, y) ==
    LET pl  == Pl(s, n)
        hit == { j2 \in 0..(MAX_BOMBS - 1) :
                   /\ pl.bombList[j2].ttl # 0
                   /\ pl.bombList[j2].x = x
                   /\ pl.bombList[j2].y = y }
    IN  IF hit = {} THEN s
        ELSE SetPl(s, n, [pl EXCEPT !.bombs = (@ + 1) % 256, !.bombList[Min(hit)].ttl = 0])

\* Variant of triggerBomb that records the range of the other player
triggerBombOtherRange(s, n, x, y) ==
    LET pl  == Pl(s, n)
        hit == { j2 \in 0..(MAX_BOMBS - 1) :
                   /\ pl.bombList[j2].ttl # 0
                   /\ pl.bombList[j2].x = x
                   /\ pl.bombList[j2].y = y }
    IN  IF hit = {} THEN s
        ELSE LET j2  == Min(hit)
                 pl2 == [pl EXCEPT !.bombs = (@ + 1) % 256, !.bombList[j2].ttl = 0]
                 s2  == SetPl(s, n, pl2)
             IN  [s2 EXCEPT !.bombChain[s.bombChainCount] =
                                [range |-> Pl(s, 3 - n).range, owner |-> n, idx |-> j2],
                            !.bombChainCount = (@ + 1) % 256]

\* The chain reaction cases of handleExplodedField: the first live bomb of
\* player n at (x, y) is credited, freed and appended to bombChain.
triggerBomb(s, n, x, y) ==
    LET pl  == Pl(s, n)
        hit == { j2 \in 0..(MAX_BOMBS - 1) :
                   /\ pl.bombList[j2].ttl # 0
                   /\ pl.bombList[j2].x = x
                   /\ pl.bombList[j2].y = y }
    IN  IF hit = {} THEN s
        ELSE LET j2  == Min(hit)
                 pl2 == [pl EXCEPT !.bombs = (@ + 1) % 256, !.bombList[j2].ttl = 0]
                 s2  == SetPl(s, n, pl2)
             IN  [s2 EXCEPT !.bombChain[s.bombChainCount] =
                                [range |-> pl2.range, owner |-> n, idx |-> j2],
                            !.bombChainCount = (@ + 1) % 256]

\* Variant of handleExplodedField in which a crossed flame starts anew
handleExplodedFieldRekindle(s, x, y, m, j, attr, part, end) ==
    LET sv == [s EXCEPT !.visited = @ \cup {m}]
        ft == FieldType(s, m)
    IN  CASE ft = FTYPE_EMPTY ->
               LET sa == setFieldAttr([sv EXCEPT !.ani[m] = 4,
                                                 !.ttl[m] = EXPLOSION_ANIMATION], m, attr)
                   j2 == IF j = 1 THEN end ELSE part
               IN  [cont |-> TRUE,
                    s |-> IF (attr \div 128) % 2 = 1 THEN setFieldFlippedY(sa, m, j2)
                          ELSE IF (attr \div 64) % 2 = 1 THEN setFieldFlippedX(sa, m, j2)
                          ELSE setField(sa, m, j2)]
          [] ft = FTYPE_FLAME ->
               [cont |-> TRUE,
                s |-> setField(setFieldAttr([sv EXCEPT !.ani[m] = 4,
                                                       !.ttl[m] = EXPLOSION_ANIMATION],
                                            m, TILE_ATTR(0, 0, 1, 3)), m, FIELD_EXPL_MID)]
          [] ft \in {FTYPE_PU_BOMB, FTYPE_PU_RANGE, FTYPE_PU_SPEED} ->
               [cont |-> FALSE, s |-> clearField(sv, m)]
          [] ft = FTYPE_SOLID ->
               [cont |-> FALSE, s |-> sv]
          [] ft = FTYPE_BOMB_P1 ->
               [cont |-> FALSE, s |-> triggerBomb(sv, 1, x, y)]
          [] ft = FTYPE_BOMB_P2 ->
               [cont |-> FALSE, s |-> triggerBomb(sv, 2, x, y)]
          [] ft = FTYPE_BRICKED ->
               [cont |-> FALSE,
                s |-> IF Ani(s, m) = 0
                      THEN setField([sv EXCEPT !.ani[m] = 4,
                                               !.ttl[m] = EXPLOSION_ANIMATION],
                                    m, FIELD_BRICKED + 2)
                      ELSE sv]
          [] OTHER -> [cont |-> FALSE, s |-> sv]

\* Variant of handleExplodedField in which a flame ends the explosion
handleExplodedFieldBlocked(s, x, y, m, j, attr, part, end) ==
    LET sv == [s EXCEPT !.visited = @ \cup {m}]
        ft == FieldType(s, m)
    IN  CASE ft = FTYPE_EMPTY ->
               LET sa == setFieldAttr([sv EXCEPT !.ani[m] = 4,
                                                 !.ttl[m] = EXPLOSION_ANIMATION], m, attr)
                   j2 == IF j = 1 THEN end ELSE part
               IN  [cont |-> TRUE,
                    s |-> IF (attr \div 128) % 2 = 1 THEN setFieldFlippedY(sa, m, j2)
                          ELSE IF (attr \div 64) % 2 = 1 THEN setFieldFlippedX(sa, m, j2)
                          ELSE setField(sa, m, j2)]
          [] ft = FTYPE_FLAME ->
               [cont |-> FALSE,
                s |-> setField(setFieldAttr(sv, m, TILE_ATTR(0, 0, 1, 3)), m,
                               FIELD_EXPL_MID + (2 * (4 - Ani(s, m))))]
          [] ft \in {FTYPE_PU_BOMB, FTYPE_PU_RANGE, FTYPE_PU_SPEED} ->
               [cont |-> FALSE, s |-> clearField(sv, m)]
          [] ft = FTYPE_SOLID ->
               [cont |-> FALSE, s |-> sv]
          [] ft = FTYPE_BOMB_P1 ->
               [cont |-> FALSE, s |-> triggerBomb(sv, 1, x, y)]
          [] ft = FTYPE_BOMB_P2 ->
               [cont |-> FALSE, s |-> triggerBomb(sv, 2, x, y)]
          [] ft = FTYPE_BRICKED ->
               [cont |-> FALSE,
                s |-> IF Ani(s, m) = 0
                      THEN setField([sv EXCEPT !.ani[m] = 4,
                                               !.ttl[m] = EXPLOSION_ANIMATION],
                                    m, FIELD_BRICKED + 2)
                      ELSE sv]
          [] OTHER -> [cont |-> FALSE, s |-> sv]

\* handleExplodedField for the field element (x, y) at index m; j is the
\* number of steps left in this direction.  cont is the return value.
handleExplodedField(s, x, y, m, j, attr, part, end) ==
    LET sv == [s EXCEPT !.visited = @ \cup {m}]
        ft == FieldType(s, m)
    IN  CASE ft = FTYPE_EMPTY ->
               LET sa == setFieldAttr([sv EXCEPT !.ani[m] = 4,
                                                 !.ttl[m] = EXPLOSION_ANIMATION], m, attr)
                   j2 == IF j = 1 THEN end ELSE part
               IN  [cont |-> TRUE,
                    s |-> IF (attr \div 128) % 2 = 1 THEN setFieldFlippedY(sa, m, j2)
                          ELSE IF (attr \div 64) % 2 = 1 THEN setFieldFlippedX(sa, m, j2)
                          ELSE setField(sa, m, j2)]
          [] ft = FTYPE_FLAME ->
               [cont |-> TRUE,
                s |-> setField(setFieldAttr(sv, m, TILE_ATTR(0, 0, 1, 3)), m,
                               FIELD_EXPL_MID + (2 * (4 - Ani(s, m))))]
          [] ft \in {FTYPE_PU_BOMB, FTYPE_PU_RANGE, FTYPE_PU_SPEED} ->
               [cont |-> FALSE, s |-> clearField(sv, m)]
          [] ft = FTYPE_SOLID ->
               [cont |-> FALSE, s |-> sv]
          [] ft = FTYPE_BOMB_P1 ->
               [cont |-> FALSE, s |-> triggerBomb(sv, 1, x, y)]
          [] ft = FTYPE_BOMB_P2 ->
               [cont |-> FALSE, s |-> triggerBomb(sv, 2, x, y)]
          [] ft = FTYPE_BRICKED ->
               [cont |-> FALSE,
                s |-> IF Ani(s, m) = 0
                      THEN setField([sv EXCEPT !.ani[m] = 4,
                                               !.ttl[m] = EXPLOSION_ANIMATION],
                                    m, FIELD_BRICKED + 2)
                      ELSE sv]
          [] OTHER -> [cont |-> FALSE, s |-> sv]

\* Variant of explodeDir that walks on after a blocked field element
RECURSIVE explodeDirThrough(_, _, _, _, _, _, _, _, _, _)
explodeDirThrough(s, x, y, m, j, dx, dy, attr, part, end) ==
    IF j = 0 THEN s
    ELSE LET x2 == (x + dx + 256) % 256
             y2 == (y + dy + 256) % 256
             m2 == (m + dx + 32 * dy + 65536) % 65536
             r  == handleExplodedField(s, x2, y2, m2, j, attr, part, end)
         IN  explodeDirThrough(r.s, x2, y2, m2, j - 1, dx, dy, attr, part, end)

\* One of the four loops of handleExplosion: from (x, y) at index m walk up
\* to j steps of (dx, dy), stopping at the first blocked field element.
RECURSIVE explodeDir(_, _, _, _, _, _, _, _, _, _)
explodeDir(s, x, y, m, j, dx, dy, attr, part, end) ==
    IF j = 0 THEN s
    ELSE LET x2 == (x + dx + 256) % 256
             y2 == (y + dy + 256) % 256
             m2 == (m + dx + 32 * dy + 65536) % 65536
             r  == handleExplodedField(s, x2, y2, m2, j, attr, part, end)
         IN  IF r.cont
             THEN explodeDir(r.s, x2, y2, m2, j - 1, dx, dy, attr, part, end)
             ELSE r.s

\* Variant of handleExplosion with the part and end tiles of the vertical
\* loops exchanged
handleExplosionSwapped(s, range, bx, by) ==
    LET k  == TILE_OFFSET_1(bx, by)
        s0 == setField([s EXCEPT !.ani[k] = 4, !.ttl[k] = EXPLOSION_ANIMATION,
                                 !.exploded = Append(@, [x |-> bx, y |-> by, range |-> range])],
                       k, FIELD_EXPL_MID)
        sl == explodeDir(s0, bx, by, k, range, -2, 0, TILE_ATTR(0, 1, 1, 3),
                         FIELD_EXPL_PART_X, FIELD_EXPL_END_X)
        sr == explodeDir(sl, bx, by, k, range, 2, 0, TILE_ATTR(0, 0, 1, 3),
                         FIELD_EXPL_PART_X, FIELD_EXPL_END_X)
        su == explodeDir(sr, bx, by, k, range, 0, -2, TILE_ATTR(1, 0, 1, 3),
                         FIELD_EXPL_END_Y, FIELD_EXPL_PART_Y)
    IN  explodeDir(su, bx, by, k, range, 0, 2, TILE_ATTR(0, 0, 1, 3),
                   FIELD_EXPL_END_Y, FIELD_EXPL_PART_Y)

\* handleExplosion(range, bombEntry) for a bomb entry at (bx, by)
handleExplosion(s, range, bx, by) ==
    LET k  == TILE_OFFSET_1(bx, by)
        s0 == setField([s EXCEPT !.ani[k] = 4, !.ttl[k] = EXPLOSION_ANIMATION,
                                 !.exploded = Append(@, [x |-> bx, y |-> by, range |-> range])],
                       k, FIELD_EXPL_MID)
        sl == explodeDir(s0, bx, by, k, range, -2, 0, TILE_ATTR(0, 1, 1, 3),
                         FIELD_EXPL_PART_X, FIELD_EXPL_END_X)
        sr == explodeDir(sl, bx, by, k, range, 2, 0, TILE_ATTR(0, 0, 1, 3),
                         FIELD_EXPL_PART_X, FIELD_EXPL_END_X)
        su == explodeDir(sr, bx, by, k, range, 0, -2, TILE_ATTR(1, 0, 1, 3),
                         FIELD_EXPL_PART_Y, FIELD_EXPL_END_Y)
    IN  explodeDir(su, bx, by, k, range, 0, 2, TILE_ATTR(0, 0, 1, 3),
                   FIELD_EXPL_PART_Y, FIELD_EXPL_END_Y)

(***************************************************************************)
(* Players                                                                 *)
(***************************************************************************)
\* ((uint8_t)v >> 3) & ~1: field element coordinate of pixel coordinate v
\* Variant of TileOf that keeps the odd tile columns and rows
TileOfOdd(v) == v \div 8

TileOf(v) == LET t == (v % 256) \div 8 IN t - (t % 2)

\* Variant of canEnter that lets a player onto the position of the bomb it
\* placed last whether or not that bomb is still alive
canEnterStale(s, pl, x, y) ==
    LET ft == FieldType(s, TILE_OFFSET_1(x, y))
    IN  CASE ft \in {FTYPE_EMPTY, FTYPE_PU_BOMB, FTYPE_PU_RANGE, FTYPE_PU_SPEED, FTYPE_FLAME} ->
               TRUE
          [] ft \in {FTYPE_BOMB_P1, FTYPE_BOMB_P2} ->
               /\ pl.lastBombIdx # INVALID_LAST_BOMB_IDX
               /\ pl.bombList[pl.lastBombIdx].x = x
               /\ pl.bombList[pl.lastBombIdx].y = y
          [] OTHER -> FALSE

canEnter(s, pl, x, y) ==
    LET ft == FieldType(s, TILE_OFFSET_1(x, y))
    IN  CASE ft \in {FTYPE_EMPTY, FTYPE_PU_BOMB, FTYPE_PU_RANGE, FTYPE_PU_SPEED, FTYPE_FLAME} ->
               TRUE
          [] ft \in {FTYPE_BOMB_P1, FTYPE_BOMB_P2} ->
               /\ pl.lastBombIdx # INVALID_LAST_BOMB_IDX
               /\ pl.bombList[pl.lastBombIdx].ttl > 0
               /\ pl.bombList[pl.lastBombIdx].x = x
               /\ pl.bombList[pl.lastBombIdx].y = y
          [] OTHER -> FALSE

\* Variant of checkPlayerCollision in which a flame marks the player's own
\* side as the winner
checkPlayerCollisionSelf(s, n, xOffset, yOffset) ==
    LET pl == Pl(s, n)
        x  == TileOf(pl.x + xOffset)
        y  == TileOf(pl.y + yOffset)
        m  == TILE_OFFSET_1(x, y)
        ft == FieldType(s, m)
    IN  CASE ft = FTYPE_PU_BOMB ->
               clearField(IF pl.maxBombs < s.maxBombs
                          THEN SetPl(s, n, [pl EXCEPT !.bombs = (@ + 1) % 256,
                                                      !.maxBombs = (@ + 1) % 256])
                          ELSE s, m)
          [] ft = FTYPE_PU_RANGE ->
               clearField(IF pl.range < s.maxRange
                          THEN SetPl(s, n, [pl EXCEPT !.range = (@ + 1) % 256])
                          ELSE s, m)
          [] ft = FTYPE_PU_SPEED ->
               clearField(SetPl(s, n, [pl EXCEPT !.running = BOOTS_TTL]), m)
          [] ft = FTYPE_FLAME ->
               [s EXCEPT !.winner = IF n = 2
                                    THEN IF @ \in {WINNER_P2, WINNER_DRAW} THEN @ ELSE @ + WINNER_P2
                                    ELSE IF @ \in {WINNER_P1, WINNER_DRAW} THEN @ ELSE @ + WINNER_P1]
          [] OTHER -> s

\* Variant of checkPlayerCollision that leaves a power-up on the field when
\* the player's stat is at its limit
checkPlayerCollisionKeep(s, n, xOffset, yOffset) ==
    LET pl == Pl(s, n)
        x  == TileOf(pl.x + xOffset)
        y  == TileOf(pl.y + yOffset)
        m  == TILE_OFFSET_1(x, y)
        ft == FieldType(s, m)
    IN  CASE ft = FTYPE_PU_BOMB ->
               IF pl.maxBombs < s.maxBombs
               THEN clearField(SetPl(s, n, [pl EXCEPT !.bombs = (@ + 1) % 256,
                                                      !.maxBombs = (@ + 1) % 256]), m)
               ELSE s
          [] ft = FTYPE_PU_RANGE ->
               IF pl.range < s.maxRange
               THEN clearField(SetPl(s, n, [pl EXCEPT !.range = (@ + 1) % 256]), m)
               ELSE s
          [] ft = FTYPE_PU_SPEED ->
               clearField(SetPl(s, n, [pl EXCEPT !.running = BOOTS_TTL]), m)
          [] ft = FTYPE_FLAME ->
               [s EXCEPT !.winner = IF n = 1
                                    THEN IF @ \in {WINNER_P2, WINNER_DRAW} THEN @ ELSE @ + WINNER_P2
                                    ELSE IF @ \in {WINNER_P1, WINNER_DRAW} THEN @ ELSE @ + WINNER_P1]
          [] OTHER -> s

checkPlayerCollision(s, n, xOffset, yOffset) ==
    LET pl == Pl(s, n)
        x  == TileOf(pl.x + xOffset)
        y  == TileOf(pl.y + yOffset)
        m  == TILE_OFFSET_1(x, y)
        ft == FieldType(s, m)
    IN  CASE ft = FTYPE_PU_BOMB ->
               clearField(IF pl.maxBombs < s.maxBombs
                          THEN SetPl(s, n, [pl EXCEPT !.bombs = (@ + 1) % 256,
                                                      !.maxBombs = (@ + 1) % 256])
                          ELSE s, m)
          [] ft = FTYPE_PU_RANGE ->
               clearField(IF pl.range < s.maxRange
                          THEN SetPl(s, n, [pl EXCEPT !.range = (@ + 1) % 256])
                          ELSE s, m)
          [] ft = FTYPE_PU_SPEED ->
               clearField(SetPl(s, n, [pl EXCEPT !.running = BOOTS_TTL]), m)
          [] ft = FTYPE_FLAME ->
               [s EXCEPT !.winner = IF n = 1
                                    THEN IF @ \in {WINNER_P2, WINNER_DRAW} THEN @ ELSE @ + WINNER_P2
                                    ELSE IF @ \in {WINNER_P1, WINNER_DRAW} THEN @ ELSE @ + WINNER_P1]
          [] OTHER -> s

\* Variant of dropBomb that drops on any field element a player can stand on
dropBombAnywhere(s, pad, n) ==
    LET pl == Pl(s, n)
        x  == TileOf(pl.x + P_MID_X)
        y  == TileOf(pl.y + P_MID_Y)
        m  == TILE_OFFSET_1(x, y)
        free == { i \in 0..(MAX_BOMBS - 1) : pl.bombList[i].ttl = 0 }
    IN  IF "A" \in pad /\ pl.bombs # 0 /\ m \in DOMAIN s.low
        THEN LET pa == [pl EXCEPT !.bombs = @ - 1]
                 pb == IF free = {} THEN pa
                       ELSE [pa EXCEPT !.bombList[Min(free)] =
                                           [x |-> x, y |-> y, ttl |-> BOMB_TTL,
                                            curFrame |-> 0, ttlFrame |-> BOMB_ANIMATION],
                                       !.lastBombIdx = Min(free)]
             IN  setField(SetPl(s, n, pb), m, FIELD_BOMB_P1)
        ELSE s

\* Variant of dropBomb that uses the free slot of the highest index
dropBombLastSlot(s, pad, n) ==
    LET pl == Pl(s, n)
        x  == TileOf(pl.x + P_MID_X)
        y  == TileOf(pl.y + P_MID_Y)
        m  == TILE_OFFSET_1(x, y)
        free == { i \in 0..(MAX_BOMBS - 1) : pl.bombList[i].ttl = 0 }
        last == CHOOSE a \in free : \A b \in free : a >= b
    IN  IF "A" \in pad /\ pl.bombs # 0 /\ Low(s, m) = FIELD_EMPTY
        THEN LET pa == [pl EXCEPT !.bombs = @ - 1]
                 pb == IF free = {} THEN pa
                       ELSE [pa EXCEPT !.bombList[last] =
                                           [x |-> x, y |-> y, ttl |-> BOMB_TTL,
                                            curFrame |-> 0, ttlFrame |-> BOMB_ANIMATION],
                                       !.lastBombIdx = last]
             IN  setField(SetPl(s, n, pb), m, FIELD_BOMB_P1)
        ELSE s

\* The "handle bomb drop" block of handlePlayer
dropBomb(s, pad, n) ==
    LET pl == Pl(s, n)
        x  == TileOf(pl.x + P_MID_X)
        y  == TileOf(pl.y + P_MID_Y)
        m  == TILE_OFFSET_1(x, y)
        free == { i \in 0..(MAX_BOMBS - 1) : pl.bombList[i].ttl = 0 }
    IN  IF "A" \in pad /\ pl.bombs # 0 /\ Low(s, m) = FIELD_EMPTY
        THEN LET pa == [pl EXCEPT !.bombs = @ - 1]
                 pb == IF free = {} THEN pa
                       ELSE [pa EXCEPT !.bombList[Min(free)] =
                                           [x |-> x, y |-> y, ttl |-> BOMB_TTL,
                                            curFrame |-> 0, ttlFrame |-> BOMB_ANIMATION],
                                       !.lastBombIdx = Min(free)]
             IN  setField(SetPl(s, n, pb), m, FIELD_BOMB_P1)
        ELSE s

\* Unit deltas from the directional keys
padDx(pad) == (IF "RIGHT" \in pad THEN 1 ELSE 0) - (IF "LEFT" \in pad THEN 1 ELSE 0)

padDy(pad) == (IF "DOWN" \in pad THEN 1 ELSE 0) - (IF "UP" \in pad THEN 1 ELSE 0)

\* Variant of moveX that asks canEnter for the upper leading corner only
moveXTopOnly(s, pl, dx) ==
    LET j  == (pl.x + dx + 256) % 256
        x  == IF dx > 0 THEN TileOf(j + P_RIGHT) ELSE TileOf(j + P_LEFT)
    IN  IF dx # 0 /\ canEnter(s, pl, x, TileOf(pl.y + P_TOP))
        THEN j ELSE pl.x

\* "change x if not blocked": the new x coordinate of the player
moveX(s, pl, dx) ==
    LET j  == (pl.x + dx + 256) % 256
        x  == IF dx > 0 THEN TileOf(j + P_RIGHT) ELSE TileOf(j + P_LEFT)
    IN  IF dx # 0 /\ canEnter(s, pl, x, TileOf(pl.y + P_TOP))
                  /\ canEnter(s, pl, x, TileOf(pl.y + P_BOTTOM))
        THEN j ELSE pl.x

\* "change y if not blocked": the new y coordinate of the player
moveY(s, pl, dy) ==
    LET j  == (pl.y + dy + 256) % 256
        y  == IF dy > 0 THEN TileOf(j + P_BOTTOM) ELSE TileOf(j + P_TOP)
    IN  IF dy # 0 /\ canEnter(s, pl, TileOf(pl.x + P_LEFT), y)
                  /\ canEnter(s, pl, TileOf(pl.x + P_RIGHT), y)
        THEN j ELSE pl.y

\* Variant of exitLastBomb that keeps the index of the last bomb
exitLastBombKeep(pl) == pl

\* "exit from last bomb dropped handling"
exitLastBomb(pl) ==
    IF pl.moving = 1 /\ pl.lastBombIdx # INVALID_LAST_BOMB_IDX
    THEN LET x  == pl.bombList[pl.lastBombIdx].x
             y  == pl.bombList[pl.lastBombIdx].y
             x1 == TileOf(pl.x + P_LEFT)
             x2 == TileOf(pl.x + P_RIGHT)
             y1 == TileOf(pl.y + P_TOP)
             y2 == TileOf(pl.y + P_BOTTOM)
         IN  IF ~ (x1 <= x /\ x2 >= x /\ y1 <= y /\ y2 >= y)
             THEN [pl EXCEPT !.lastBombIdx = INVALID_LAST_BOMB_IDX]
             ELSE pl
    ELSE pl

\* One pass of the movement loop of handlePlayer
moveStep(s, pad, n) ==
    LET dx  == padDx(pad)
        dy  == padDy(pad)
        pl  == Pl(s, n)
        pa  == [pl EXCEPT !.x = moveX(s, pl, dx)]
        pb  == [pa EXCEPT !.y = moveY(s, pa, dy)]
        pc  == [pb EXCEPT !.moving = IF dx # 0 \/ dy # 0 THEN 1 ELSE 0]
        sm  == SetPl(s, n, exitLastBomb(pc))
        c1  == checkPlayerCollision(sm, n, P_LEFT, P_TOP)
        c2  == checkPlayerCollision(c1, n, P_RIGHT, P_TOP)
        c3  == checkPlayerCollision(c2, n, P_LEFT, P_BOTTOM)
    IN  checkPlayerCollision(c3, n, P_RIGHT, P_BOTTOM)

\* Variant of handlePlayer that never runs the movement loop twice
handlePlayerSlow(s, pad, n) == moveStep(dropBomb(s, pad, n), pad, n)

handlePlayer(s, pad, n) ==
    LET sd == dropBomb(s, pad, n)
        ds == IF Pl(sd, n).running # 0 THEN 2 ELSE 1
        m1 == moveStep(sd, pad, n)
    IN  IF ds = 2 THEN moveStep(m1, pad, n) ELSE m1

(***************************************************************************)
(* The 10Hz tick                                                           *)
(***************************************************************************)
\* Variant of dropsPowerUp with a strict comparison
dropsPowerUpBelow(draw, rate255) == draw % 256 < rate255

\* (uint8_t)m <= dropRate255: the dice decide for a power-up
dropsPowerUp(draw, rate255) == draw % 256 <= rate255

\* Variant of decayField that clears a field element with one frame left
decayFieldEarly(low, high, ani, ttl, draw, rate255) ==
    IF ttl = 0 THEN [low |-> low, high |-> high, ani |-> ani, ttl |-> ttl]
    ELSE IF ttl - 1 # 0 THEN [low |-> low, high |-> high, ani |-> ani, ttl |-> ttl - 1]
    ELSE LET a1 == (ani + 255) % 256
         IN  IF a1 > 1
             THEN [low |-> IF low = FIELD_BRICKED + 4 THEN FIELD_BRICKED + 2
                           ELSE (low + 2) % 256,
                   high |-> high, ani |-> a1, ttl |-> EXPLOSION_ANIMATION]
             ELSE [low |-> FIELD_EMPTY, high |-> TILE_ATTR(0, 0, 1, 3), ani |-> 0, ttl |-> 0]

\* Variant of decayField that gives the range power-up for bits 8..10 = 3
decayFieldKinds(low, high, ani, ttl, draw, rate255) ==
    IF ttl = 0 THEN [low |-> low, high |-> high, ani |-> ani, ttl |-> ttl]
    ELSE IF ttl - 1 # 0 THEN [low |-> low, high |-> high, ani |-> ani, ttl |-> ttl - 1]
    ELSE LET a1 == (ani + 255) % 256
         IN  IF a1 # 0
             THEN [low |-> IF low = FIELD_BRICKED + 4 THEN FIELD_BRICKED + 2
                           ELSE (low + 2) % 256,
                   high |-> high, ani |-> a1, ttl |-> EXPLOSION_ANIMATION]
             ELSE [low |-> IF low \in {FIELD_BRICKED + 2, FIELD_BRICKED + 4}
                           THEN IF dropsPowerUp(draw, rate255)
                                THEN LET b == (draw \div 256) % 8
                                     IN  IF b <= 2 THEN FIELD_PU_BOMB
                                         ELSE IF b <= 6 THEN FIELD_PU_RANGE
                                         ELSE FIELD_PU_SPEED
                                ELSE FIELD_EMPTY
                           ELSE FIELD_EMPTY,
                   high |-> TILE_ATTR(0, 0, 1, 3), ani |-> 0, ttl |-> 0]

\* Body of the "update animated game field frames" loop for one field
\* element with tile low, attribute high, frame count ani and timer ttl;
\* draw is the value lrng() returns if the dice are rolled.
decayField(low, high, ani, ttl, draw, rate255) ==
    IF ttl = 0 THEN [low |-> low, high |-> high, ani |-> ani, ttl |-> ttl]
    ELSE IF ttl - 1 # 0 THEN [low |-> low, high |-> high, ani |-> ani, ttl |-> ttl - 1]
    ELSE LET a1 == (ani + 255) % 256
         IN  IF a1 # 0
             THEN [low |-> IF low = FIELD_BRICKED + 4 THEN FIELD_BRICKED + 2
                           ELSE (low + 2) % 256,
                   high |-> high, ani |-> a1, ttl |-> EXPLOSION_ANIMATION]
             ELSE [low |-> IF low \in {FIELD_BRICKED + 2, FIELD_BRICKED + 4}
                           THEN IF dropsPowerUp(draw, rate255)
                                THEN LET b == (draw \div 256) % 8
                                     IN  IF b <= 3 THEN FIELD_PU_BOMB
                                         ELSE IF b <= 6 THEN FIELD_PU_RANGE
                                         ELSE FIELD_PU_SPEED
                                ELSE FIELD_EMPTY
                           ELSE FIELD_EMPTY,
                   high |-> TILE_ATTR(0, 0, 1, 3), ani |-> 0, ttl |-> 0]

\* The field elements whose decay rolls the dice in the next tick
rollsDice(s, k) ==
    /\ k \in DOMAIN s.ttl
    /\ s.ttl[k] = 1
    /\ s.ani[k] = 1
    /\ s.low[k] \in {FIELD_BRICKED + 2, FIELD_BRICKED + 4}

\* The "update animated game field frames" loop from entry i of
\* fieldElemIndex on; rnd[k] is the value lrng() returns in the iteration
\* of field element k.
RECURSIVE decayLoop(_, _, _)
decayLoop(s, i, rnd) ==
    LET todo == { n \in i..Len(fieldElemIndex) : Ttl(s, fieldElemIndex[n]) # 0 }
    IN  IF todo = {} THEN s
        ELSE LET n == Min(todo)
                 k == fieldElemIndex[n]
                 d == decayField(s.low[k], s.high[k], s.ani[k], s.ttl[k],
                                 IF k \in DOMAIN rnd THEN rnd[k] ELSE 0, s.dropRate255)
             IN  decayLoop([s EXCEPT !.low[k] = d.low, !.high[k] = d.high,
                                     !.ani[k] = d.ani, !.ttl[k] = d.ttl], n + 1, rnd)

\* Body of the "update player n bomb animation frames" loop for slot i
\* Variant of bombSlot in which a bomb explodes one tick early
bombSlotEarly(s, n, i) ==
    LET pl == Pl(s, n)
        b  == pl.bombList[i]
    IN  IF b.ttl = 0 THEN s
        ELSE IF b.ttl - 1 > 1
        THEN LET f1 == (b.ttlFrame + 255) % 256
             IN  IF f1 = 0
                 THEN LET cf == (b.curFrame + 1) % 2
                      IN  setField(SetPl(s, n, [pl EXCEPT !.bombList[i].ttl = @ - 1,
                                                          !.bombList[i].ttlFrame = BOMB_ANIMATION,
                                                          !.bombList[i].curFrame = cf]),
                                   TILE_OFFSET_1(b.x, b.y),
                                   (IF n = 1 THEN FIELD_BOMB_P1 ELSE FIELD_BOMB_P2) + 2 * cf)
                 ELSE SetPl(s, n, [pl EXCEPT !.bombList[i].ttl = @ - 1,
                                             !.bombList[i].ttlFrame = f1])
        ELSE handleExplosion(SetPl(s, n, [pl EXCEPT !.bombList[i].ttl = 0,
                                                    !.bombs = (@ + 1) % 256]),
                             pl.range, b.x, b.y)

\* Variant of bombSlot in which a bomb explodes with the range its owner
\* had at the start of the round
bombSlotFirstRange(s, n, i) ==
    LET pl == Pl(s, n)
        b  == pl.bombList[i]
    IN  IF b.ttl = 0 THEN s
        ELSE IF b.ttl - 1 # 0
        THEN LET f1 == (b.ttlFrame + 255) % 256
             IN  IF f1 = 0
                 THEN LET cf == (b.curFrame + 1) % 2
                      IN  setField(SetPl(s, n, [pl EXCEPT !.bombList[i].ttl = @ - 1,
                                                          !.bombList[i].ttlFrame = BOMB_ANIMATION,
                                                          !.bombList[i].curFrame = cf]),
                                   TILE_OFFSET_1(b.x, b.y),
                                   (IF n = 1 THEN FIELD_BOMB_P1 ELSE FIELD_BOMB_P2) + 2 * cf)
                 ELSE SetPl(s, n, [pl EXCEPT !.bombList[i].ttl = @ - 1,
                                             !.bombList[i].ttlFrame = f1])
        ELSE handleExplosion(SetPl(s, n, [pl EXCEPT !.bombList[i].ttl = 0,
                                                    !.bombs = (@ + 1) % 256]),
                             1, b.x, b.y)

bombSlot(s, n, i) ==
    LET pl == Pl(s, n)
        b  == pl.bombList[i]
    IN  IF b.ttl = 0 THEN s
        ELSE IF b.ttl - 1 # 0
        THEN LET f1 == (b.ttlFrame + 255) % 256
             IN  IF f1 = 0
                 THEN LET cf == (b.curFrame + 1) % 2
                      IN  setField(SetPl(s, n, [pl EXCEPT !.bombList[i].ttl = @ - 1,
                                                          !.bombList[i].ttlFrame = BOMB_ANIMATION,
                                                          !.bombList[i].curFrame = cf]),
                                   TILE_OFFSET_1(b.x, b.y),
                                   (IF n = 1 THEN FIELD_BOMB_P1 ELSE FIELD_BOMB_P2) + 2 * cf)
                 ELSE SetPl(s, n, [pl EXCEPT !.bombList[i].ttl = @ - 1,
                                             !.bombList[i].ttlFrame = f1])
        ELSE handleExplosion(SetPl(s, n, [pl EXCEPT !.bombList[i].ttl = 0,
                                                    !.bombs = (@ + 1) % 256]),
                             pl.range, b.x, b.y)

RECURSIVE bombScan(_, _, _)
bombScan(s, n, i) ==
    IF i >= MAX_BOMBS THEN s
    ELSE IF Pl(s, n).bombList[i].ttl = 0 THEN bombScan(s, n, i + 1)
    ELSE bombScan(bombSlot(s, n, i), n, i + 1)

\* Variant of chainLoop that explodes every entry with the range of the
\* first one
RECURSIVE chainLoopFirstRange(_, _)
chainLoopFirstRange(s, i) ==
    IF i < s.bombChainCount
    THEN LET e == s.bombChain[i]
             b == Pl(s, e.owner).bombList[e.idx]
         IN  chainLoopFirstRange(handleExplosion(s, s.bombChain[0].range, b.x, b.y), i + 1)
    ELSE s

\* "handle chain reactions"
RECURSIVE chainLoop(_, _)
chainLoop(s, i) ==
    IF i < s.bombChainCount
    THEN LET e == s.bombChain[i]
             b == Pl(s, e.owner).bombList[e.idx]
         IN  chainLoop(handleExplosion(s, e.range, b.x, b.y), i + 1)
    ELSE s

\* Variant of timeTick that reloads untilSecond one tick short
timeTickShort(s) ==
    LET u1 == (s.untilSecond + 255) % 256
        g1 == (s.gameOver + 65535) % 65536
        sa == [s EXCEPT !.counter10Hz = (@ + 1) % 65536,
                        !.untilSecond = IF u1 = 0 THEN 9 ELSE u1,
                        !.gameOver = IF u1 = 0 THEN g1 ELSE @,
                        !.winner = IF u1 = 0 /\ g1 = 0 THEN WINNER_DRAW ELSE @]
    IN  [sa EXCEPT !.p1.running = IF @ # 0 THEN @ - 1 ELSE @,
                   !.p2.running = IF @ # 0 THEN @ - 1 ELSE @]

\* "update time related variables" up to the running states
timeTick(s) ==
    LET u1 == (s.untilSecond + 255) % 256
        g1 == (s.gameOver + 65535) % 65536
        sa == [s EXCEPT !.counter10Hz = (@ + 1) % 65536,
                        !.untilSecond = IF u1 = 0 THEN 10 ELSE u1,
                        !.gameOver = IF u1 = 0 THEN g1 ELSE @,
                        !.winner = IF u1 = 0 /\ g1 = 0 THEN WINNER_DRAW ELSE @]
    IN  [sa EXCEPT !.p1.running = IF @ # 0 THEN @ - 1 ELSE @,
                   !.p2.running = IF @ # 0 THEN @ - 1 ELSE @]

\* The whole "if (framesUntil10Hz == 0)" block of handleGame
\* Variant of tick10Hz that handles the chain before player 2's bombs
tick10HzChainEarly(s, rnd) ==
    Only({ chainLoop(sc[2], sc[1]) :
             sc \in { <<sb.bombChainCount, bombScan(sb, 2, 0)>> :
                sb \in { chainLoop(sa, 0) :
                        sa \in { bombScan([sd EXCEPT !.bombChainCount = 0], 1, 0) :
                                   sd \in { decayLoop(st, 1, rnd) : st \in {timeTick(s)} } } } } })

\* Variant of tick10Hz that does not reset bombChainCount
tick10HzKeepsChain(s, rnd) ==
    Only({ chainLoop(sb, 0) :
             sb \in { bombScan(sa, 2, 0) :
                        sa \in { bombScan(sd, 1, 0) :
                                   sd \in { decayLoop(st, 1, rnd) : st \in {timeTick(s)} } } } })

tick10Hz(s, rnd) ==
    Only({ chainLoop(sb, 0) :
             sb \in { bombScan(sa, 2, 0) :
                        sa \in { bombScan([sd EXCEPT !.bombChainCount = 0], 1, 0) :
                                   sd \in { decayLoop(st, 1, rnd) : st \in {timeTick(s)} } } } })

(***************************************************************************)
(* Screen handlers                                                         *)
(***************************************************************************)
\* Variant of handleGame that handles the players before the 10Hz block
handleGamePlayersFirst(s, in0, in1, rnd) ==
    LET f1 == (s.framesUntil10Hz + 255) % 256
        st(t) == IF f1 = 0
                 THEN tick10Hz([t EXCEPT !.framesUntil10Hz = FP10HZ], rnd)
                 ELSE [t EXCEPT !.framesUntil10Hz = f1]
        sp(t) == IF "START" \in in0 THEN [t EXCEPT !.pausePad = "pad0", !.screen = S_PAUSE]
                 ELSE IF "START" \in in1 THEN [t EXCEPT !.pausePad = "pad1", !.screen = S_PAUSE]
                 ELSE t
        sw(t) == IF t.winner # WINNER_NA THEN [t EXCEPT !.screen = S_WINNER] ELSE t
    IN  Only({ sw(c) : c \in { st(b) : b \in { handlePlayer(a, in1, 2) :
                                 a \in { handlePlayer(sp(t), in0, 1) : t \in {s} } } } })

\* Variant of handleGame in which a pause request is handled last
handleGamePauseLast(s, in0, in1, rnd) ==
    LET f1 == (s.framesUntil10Hz + 255) % 256
        st == IF f1 = 0
              THEN tick10Hz([s EXCEPT !.framesUntil10Hz = FP10HZ], rnd)
              ELSE [s EXCEPT !.framesUntil10Hz = f1]
        sp(t) == IF "START" \in in0 THEN [t EXCEPT !.pausePad = "pad0", !.screen = S_PAUSE]
                 ELSE IF "START" \in in1 THEN [t EXCEPT !.pausePad = "pad1", !.screen = S_PAUSE]
                 ELSE t
        sw(t) == IF t.winner # WINNER_NA THEN [t EXCEPT !.screen = S_WINNER] ELSE t
    IN  Only({ sp(sw(b)) : b \in { handlePlayer(a, in1, 2) :
                                     a \in { handlePlayer(t, in0, 1) : t \in {st} } } })

handleGame(s, in0, in1, rnd) ==
    LET f1 == (s.framesUntil10Hz + 255) % 256
        st == IF f1 = 0
              THEN tick10Hz([s EXCEPT !.framesUntil10Hz = FP10HZ], rnd)
              ELSE [s EXCEPT !.framesUntil10Hz = f1]
        sp(t) == IF "START" \in in0 THEN [t EXCEPT !.pausePad = "pad0", !.screen = S_PAUSE]
                 ELSE IF "START" \in in1 THEN [t EXCEPT !.pausePad = "pad1", !.screen = S_PAUSE]
                 ELSE t
        sw(t) == IF t.winner # WINNER_NA THEN [t EXCEPT !.screen = S_WINNER] ELSE t
    IN  Only({ sw(b) : b \in { handlePlayer(a, in1, 2) :
                                 a \in { handlePlayer(sp(t), in0, 1) : t \in {st} } } })

(***************************************************************************)
(* Initial states                                                          *)
(***************************************************************************)
FieldElems == { fieldElemIndex[i] : i \in 1..Len(fieldElemIndex) }

\* A bomb entry that was dropped at (x, y) and has t ticks left: the
\* animation state bombSlot leaves after BOMB_TTL - t ticks.
BombEntry(x, y, t) ==
    [ x |-> x, y |-> y, ttl |-> t,
      curFrame |-> ((BOMB_TTL - t) \div BOMB_ANIMATION) % 2,
      ttlFrame |-> BOMB_ANIMATION - ((BOMB_TTL - t) % BOMB_ANIMATION) ]

NoBomb == [ x |-> 0, y |-> 0, ttl |-> 0, curFrame |-> 0, ttlFrame |-> 0 ]

\* The tile a live bomb entry of player n shows: dropBomb writes
\* FIELD_BOMB_P1, bombSlot writes the owner's tile at each animation step.
BombTile(n, b) ==
    IF BOMB_TTL - b.ttl < BOMB_ANIMATION THEN FIELD_BOMB_P1
    ELSE (IF n = 1 THEN FIELD_BOMB_P1 ELSE FIELD_BOMB_P2) + 2 * b.curFrame

\* A player standing at pixel position (px, py) with the live bombs in
\* the sequence placed (slots 0, 1, ...); last is the slot of the bomb the
\* player still stands on, or INVALID_LAST_BOMB_IDX.
Player(px, py, range, maxB, placed, last) ==
    [ x |-> px, y |-> py, moving |-> 0, range |-> range, maxBombs |-> maxB,
      bombs |-> maxB - Len(placed), running |-> 0,
      bombList |-> [ i \in 0..(MAX_BOMBS - 1) |->
                       IF i < Len(placed) THEN placed[i + 1] ELSE NoBomb ],
      lastBombIdx |-> last ]

NullChain == [ i \in 0..(2 * MAX_BOMBS - 1) |-> [range |-> 0, owner |-> 0, idx |-> 0] ]

LiveBombs(pl) == { i \in 0..(MAX_BOMBS - 1) : pl.bombList[i].ttl # 0 }

\* The grid of a round in progress: every field element is a bricked wall
\* except the ones in tiles (cleared elements, power-ups) and the bombs.
ArenaLow(tiles, q1, q2) ==
    [ m \in FieldElems |->
        IF \E i \in LiveBombs(q1) : TILE_OFFSET_1(q1.bombList[i].x, q1.bombList[i].y) = m
        THEN BombTile(1, q1.bombList[CHOOSE i \in LiveBombs(q1) :
                           TILE_OFFSET_1(q1.bombList[i].x, q1.bombList[i].y) = m])
        ELSE IF \E i \in LiveBombs(q2) : TILE_OFFSET_1(q2.bombList[i].x, q2.bombList[i].y) = m
        THEN BombTile(2, q2.bombList[CHOOSE i \in LiveBombs(q2) :
                           TILE_OFFSET_1(q2.bombList[i].x, q2.bombList[i].y) = m])
        ELSE IF m \in DOMAIN tiles THEN tiles[m]
        ELSE FIELD_BRICKED ]

\* Bounds of the explored rounds
MaxFuse == 2        \* a bomb about to explode has 1..MaxFuse ticks left initially
TicksLeft == 3      \* ticks left of the round's last second initially
LongFuse == 20      \* ticks left of a bomb that outlives the explored frames

\* Values lrng() returns in the explored rounds: low byte around the drop
\* thresholds, bits 8..10 over the three power-up kinds, with and without
\* higher bits.
Draws == { 0, 768 + 89, 1024 + 90, 1536 + 1, 1792 + 255, 63488 + 255, 65280 + 0 }

\* Every combination of the bits of a draw the decay code reads (the low
\* byte and bits 8..10), with bits 11..15 clear and set.
DrawValues == { l + 256 * h : l \in 0..255, h \in (0..7) \cup (248..255) }

\* Pad values of the explored rounds
Pads0 == { {}, {"A"} }

Pads1 == { {}, {"A"}, {"RIGHT"} }

PadsIdle == { {} }

At(x, y) == TILE_OFFSET_1(x, y)

Tiles(cells, tile) == [ m \in { At(c[1], c[2]) : c \in cells } |-> tile ]

\* The field elements of the upper left 5x5 block of the arena
Block == { c \in {2, 4, 6, 8, 10} \X {4, 6, 8, 10, 12} : At(c[1], c[2]) \in FieldElems }

\* The "blocks left untouched during field initialization"
StartCells == { fieldElemIndex[i] : i \in 1..FIRST_FLEX_FIELD }

\* A round of DEF_MAX_TIME seconds with the given number of ticks left, a
\* tick being due: untilSecond counts the ticks of the running second down
\* from 10, gameOver the seconds that are left
MidRound(tiles, q1, q2, rate, ticks) ==
    [ tiles |-> tiles, q1 |-> q1, q2 |-> q2, rate |-> rate, maxTime |-> DEF_MAX_TIME,
      gameOver |-> 1 + ((ticks - 1) \div 10), untilSecond |-> 1 + ((ticks - 1) % 10),
      framesUntil10Hz |-> 1, counter10Hz |-> 10 * DEF_MAX_TIME - ticks ]

\* The first round after power-up as handleOptions and initializeGame
\* leave it, for a round time of T seconds
RoundStart(T) ==
    [ tiles |-> [ m \in StartCells |-> FIELD_EMPTY ],
      q1 |-> Player(2 * 8, 4 * 8, 1, 1, << >>, INVALID_LAST_BOMB_IDX),
      q2 |-> Player(26 * 8, 24 * 8, 1, 1, << >>, INVALID_LAST_BOMB_IDX),
      rate |-> DEF_DROP_RATE, maxTime |-> T,
      gameOver |-> T, untilSecond |-> 10, framesUntil10Hz |-> FP10HZ,
      counter10Hz |-> 0 ]

ChainRounds ==
    \* adjacent bombs of both owners, different ranges, in a cleared block
    { MidRound(Tiles(Block, FIELD_EMPTY),
               Player(2 * 8, 10 * 8, 1, 2,
                      << BombEntry(2, 4, f1), BombEntry(2, 6, LongFuse) >>,
                      INVALID_LAST_BOMB_IDX),
               Player(6 * 8, 4 * 8, 2, 2, << BombEntry(4, 4, f2) >>,
                      INVALID_LAST_BOMB_IDX),
               DEF_DROP_RATE, TicksLeft) :
      f1 \in 1..MaxFuse, f2 \in 1..MaxFuse }

PlusRounds ==
    \* a bomb of range 2 in the open
    { MidRound(Tiles(Block, FIELD_EMPTY),
               Player(2 * 8, 4 * 8, 2, 1, << BombEntry(6, 8, f) >>,
                      INVALID_LAST_BOMB_IDX),
               Player(10 * 8, 12 * 8, 1, 1, << >>, INVALID_LAST_BOMB_IDX),
               DEF_DROP_RATE, TicksLeft) : f \in 1..MaxFuse }

ObstacleRounds ==
    \* a bomb of range 3 between bricked walls and power-ups
    { MidRound(Tiles({<<10, 8>>}, FIELD_PU_RANGE) @@ Tiles({<<6, 4>>, <<12, 12>>}, FIELD_PU_BOMB)
                 @@ Tiles({<<4, 8>>}, FIELD_BRICKED) @@ Tiles(Block, FIELD_EMPTY),
               Player(2 * 8, 4 * 8, 1, 1, << >>, INVALID_LAST_BOMB_IDX),
               Player(10 * 8, 12 * 8, 3, 1, << BombEntry(6, 8, f) >>,
                      INVALID_LAST_BOMB_IDX),
               DEF_DROP_RATE, TicksLeft) : f \in 1..MaxFuse }

DecayRounds ==
    \* a bricked wall next to a bomb, both players standing on a bomb of
    \* theirs, for each drop rate
    { MidRound(Tiles({<<4, 8>>}, FIELD_BRICKED) @@ Tiles(Block, FIELD_EMPTY),
               Player(10 * 8, 12 * 8, 1, 2,
                      << BombEntry(6, 8, f), BombEntry(10, 12, LongFuse) >>, 1),
               Player(2 * 8, 8 * 8, 1, 1, << BombEntry(2, 8, LongFuse) >>, 0),
               r, f + 2 + TicksLeft) :
      f \in 1..MaxFuse, r \in {0, DEF_DROP_RATE, 100} }

Scenarios == ChainRounds \cup PlusRounds \cup ObstacleRounds \cup DecayRounds

\* Round times of the timer runs: the smallest one of the options screen
\* and the default
RoundTimes == { 6 * 10, DEF_MAX_TIME }

\* (uint8_t)((((uint16_t)dropRate) * 255) / 100)
scaleDropRate(rate) == (((rate * 255) % 65536) \div 100) % 256

InitWith(sc, mb, mr) ==
    /\ gameFieldLow = ArenaLow(sc.tiles, sc.q1, sc.q2)
    /\ gameFieldHigh = [ m \in FieldElems |-> TILE_ATTR(0, 0, 1, 3) ]
    /\ aniField = [ m \in FieldElems |-> 0 ]
    /\ ttlField = [ m \in FieldElems |-> 0 ]
    /\ p1 = sc.q1
    /\ p2 = sc.q2
    /\ bombChain = NullChain
    /\ bombChainCount = 0
    /\ winner = WINNER_NA
    /\ screen = S_GAME
    /\ pad0 = {}
    /\ pad1 = {}
    /\ pausePad = "none"
    /\ gameOver = sc.gameOver
    /\ framesUntil10Hz = sc.framesUntil10Hz
    /\ untilSecond = sc.untilSecond
    /\ counter10Hz = sc.counter10Hz
    /\ maxTime = sc.maxTime
    /\ dropRate = sc.rate
    /\ dropRate255 = scaleDropRate(sc.rate)
    /\ maxBombs = mb
    /\ maxRange = mr
    /\ visited = {}
    /\ exploded = << >>
    /\ option = O_TIME
    /\ clicks = 0

\* A round played with the default limits of main()
InitOf(sc) == InitWith(sc, DEF_MAX_BOMBS, DEF_MAX_RANGE)

Init == \E sc \in Scenarios : InitOf(sc)

(***************************************************************************)
(* Round start and the other screens                                       *)
(***************************************************************************)
\* The field elements initializeGame rolls a wall for
FlexElems == FieldElems \ StartCells

\* initializeGame(): the level as fieldMap has it, each flexible element
\* cleared where (lrng() & 7) >= 6, and the state of both players.  Of a
\* bomb slot only ttl is written.
\* Variant of initializeGame that leaves the bomb slots and the boost timer
\* of the players as they are
initializeGameKeep(s, rnd) ==
    LET fresh(pl, px, py) ==
            [pl EXCEPT !.bombs = 1, !.maxBombs = 1, !.range = 1,
                       !.moving = 0, !.x = px, !.y = py,
                       !.lastBombIdx = INVALID_LAST_BOMB_IDX]
    IN  [s EXCEPT !.low = [ m \in FieldElems |->
                              IF m \in StartCells THEN FIELD_EMPTY
                              ELSE IF (rnd[m] % 8) >= 6 THEN FIELD_EMPTY
                              ELSE FIELD_BRICKED ],
                  !.high = [ m \in FieldElems |-> TILE_ATTR(0, 0, 1, 3) ],
                  !.ani = [ m \in FieldElems |-> 0 ],
                  !.ttl = [ m \in FieldElems |-> 0 ],
                  !.p1 = fresh(s.p1, 2 * 8, 4 * 8),
                  !.p2 = fresh(s.p2, 26 * 8, 24 * 8),
                  !.dropRate255 = scaleDropRate(s.dropRate),
                  !.gameOver = s.maxTime,
                  !.winner = WINNER_NA]

initializeGame(s, rnd) ==
    LET fresh(pl, px, py) ==
            [pl EXCEPT !.bombs = 1, !.maxBombs = 1, !.range = 1, !.running = 0,
                       !.moving = 0, !.x = px, !.y = py,
                       !.bombList = [ i \in 0..(MAX_BOMBS - 1) |-> [pl.bombList[i] EXCEPT !.ttl = 0] ],
                       !.lastBombIdx = INVALID_LAST_BOMB_IDX]
    IN  [s EXCEPT !.low = [ m \in FieldElems |->
                              IF m \in StartCells THEN FIELD_EMPTY
                              ELSE IF (rnd[m] % 8) >= 6 THEN FIELD_EMPTY
                              ELSE FIELD_BRICKED ],
                  !.high = [ m \in FieldElems |-> TILE_ATTR(0, 0, 1, 3) ],
                  !.ani = [ m \in FieldElems |-> 0 ],
                  !.ttl = [ m \in FieldElems |-> 0 ],
                  !.p1 = fresh(s.p1, 2 * 8, 4 * 8),
                  !.p2 = fresh(s.p2, 26 * 8, 24 * 8),
                  !.dropRate255 = scaleDropRate(s.dropRate),
                  !.gameOver = s.maxTime,
                  !.winner = WINNER_NA]

handleTitle(s, in0) ==
    IF in0 \cap {"START", "A"} # {}
    THEN [s EXCEPT !.screen = S_OPTIONS, !.option = O_TIME]
    ELSE s

optionBelow == << O_DROPRATE, O_BOMBS, O_RANGE, O_RANGE >>

optionAbove == << O_TIME, O_TIME, O_DROPRATE, O_BOMBS >>

\* Variant of decreaseOption that takes the limits themselves one step down
decreaseOptionLoose(s) ==
    [s EXCEPT !.maxTime = IF s.option = O_TIME /\ @ >= 60 THEN @ - 10 ELSE @,
              !.dropRate = IF s.option = O_DROPRATE /\ @ >= 0 THEN @ - 5 ELSE @,
              !.maxBombs = IF s.option = O_BOMBS /\ @ >= 1 THEN @ - 1 ELSE @,
              !.maxRange = IF s.option = O_RANGE /\ @ >= 1 THEN @ - 1 ELSE @]

\* The "decrease selected value" switch
decreaseOption(s) ==
    [s EXCEPT !.maxTime = IF s.option = O_TIME /\ @ > 60 THEN @ - 10 ELSE @,
              !.dropRate = IF s.option = O_DROPRATE /\ @ > 0 THEN @ - 5 ELSE @,
              !.maxBombs = IF s.option = O_BOMBS /\ @ > 1 THEN @ - 1 ELSE @,
              !.maxRange = IF s.option = O_RANGE /\ @ > 1 THEN @ - 1 ELSE @]

\* The "increase selected value" switch
increaseOption(s) ==
    [s EXCEPT !.maxTime = IF s.option = O_TIME /\ @ < 990 THEN @ + 10 ELSE @,
              !.dropRate = IF s.option = O_DROPRATE /\ @ < 100 THEN @ + 5 ELSE @,
              !.maxBombs = IF s.option = O_BOMBS /\ @ < MAX_BOMBS THEN @ + 1 ELSE @,
              !.maxRange = IF s.option = O_RANGE /\ @ < MAX_RANGE THEN @ + 1 ELSE @]

\* The "reset selected value to its defaults" switch
resetOption(s) ==
    [s EXCEPT !.maxTime = IF s.option = O_TIME THEN DEF_MAX_TIME ELSE @,
              !.dropRate = IF s.option = O_DROPRATE THEN DEF_DROP_RATE ELSE @,
              !.maxBombs = IF s.option = O_BOMBS THEN DEF_MAX_BOMBS ELSE @,
              !.maxRange = IF s.option = O_RANGE THEN DEF_MAX_RANGE ELSE @]

\* Whether handleOptions starts a round on this pad value
startsGame(in0) == in0 \cap {"SELECT", "B"} = {} /\ in0 \cap {"START", "A"} # {}

handleOptions(s, in0, rnd) ==
    LET click(t) == [t EXCEPT !.clicks = @ + 1]
    IN  IF in0 \cap {"SELECT", "B"} # {}
        THEN [s EXCEPT !.screen = S_TITLE, !.option = O_TIME]
        ELSE IF in0 \cap {"START", "A"} # {}
        THEN initializeGame([s EXCEPT !.screen = S_GAME, !.framesUntil10Hz = FP10HZ,
                                      !.untilSecond = 10], rnd)
        ELSE IF "DOWN" \in in0 THEN click([s EXCEPT !.option = optionBelow[s.option + 1]])
        ELSE IF "UP" \in in0 THEN click([s EXCEPT !.option = optionAbove[s.option + 1]])
        ELSE IF "LEFT" \in in0 THEN click(decreaseOption(s))
        ELSE IF "RIGHT" \in in0 THEN click(increaseOption(s))
        ELSE IF "X" \in in0 THEN click(resetOption(s))
        ELSE s

\* Variant of handlePause that lets the frame counter of the 10Hz block run
handlePauseCounting(s, in0, in1) ==
    LET t == [s EXCEPT !.framesUntil10Hz = IF @ > 1 THEN @ - 1 ELSE FP10HZ]
    IN  IF s.pausePad = "pad0" /\ "SELECT" \in in0
        THEN [t EXCEPT !.screen = S_OPTIONS, !.option = O_TIME]
        ELSE IF "START" \in (IF s.pausePad = "pad0" THEN in0 ELSE in1)
        THEN [t EXCEPT !.screen = S_GAME]
        ELSE t

\* Variant of handlePause in which START on either pad resumes the game
handlePauseAnyPad(s, in0, in1) ==
    IF s.pausePad = "pad0" /\ "SELECT" \in in0
    THEN [s EXCEPT !.screen = S_OPTIONS, !.option = O_TIME]
    ELSE IF "START" \in (in0 \cup in1)
    THEN [s EXCEPT !.screen = S_GAME]
    ELSE s

handlePause(s, in0, in1) ==
    IF s.pausePad = "pad0" /\ "SELECT" \in in0
    THEN [s EXCEPT !.screen = S_OPTIONS, !.option = O_TIME]
    ELSE IF "START" \in (IF s.pausePad = "pad0" THEN in0 ELSE in1)
    THEN [s EXCEPT !.screen = S_GAME]
    ELSE s

handleWinner(s, in0) ==
    IF in0 \cap {"START", "SELECT"} # {}
    THEN [s EXCEPT !.screen = S_OPTIONS, !.option = O_TIME]
    ELSE s

(***************************************************************************)
(* Steps                                                                   *)
(***************************************************************************)
\* The field elements for which the next frame calls lrng()
DiceElems(s) ==
    IF s.framesUntil10Hz = 1 THEN { k \in FieldElems : rollsDice(s, k) } ELSE {}

Store(t, in0, in1) ==
    /\ gameFieldLow' = t.low
    /\ gameFieldHigh' = t.high
    /\ aniField' = t.ani
    /\ ttlField' = t.ttl
    /\ p1' = t.p1
    /\ p2' = t.p2
    /\ bombChain' = t.bombChain
    /\ bombChainCount' = t.bombChainCount
    /\ winner' = t.winner
    /\ screen' = t.screen
    /\ pad0' = in0
    /\ pad1' = in1
    /\ pausePad' = t.pausePad
    /\ gameOver' = t.gameOver
    /\ framesUntil10Hz' = t.framesUntil10Hz
    /\ untilSecond' = t.untilSecond
    /\ counter10Hz' = t.counter10Hz
    /\ maxTime' = t.maxTime
    /\ dropRate' = t.dropRate
    /\ dropRate255' = t.dropRate255
    /\ maxBombs' = t.maxBombs
    /\ maxRange' = t.maxRange
    /\ visited' = t.visited
    /\ exploded' = t.exploded
    /\ option' = t.option
    /\ clicks' = t.clicks

\* One iteration of the loop of main() on the game screen
GameFrame(ins0, ins1) ==
    /\ screen = S_GAME
    /\ \E in0 \in ins0, in1 \in ins1 :
         \E rnd \in [ DiceElems(GS) -> Draws ] :
            \E t \in { handleGame(GS, in0, in1, rnd) } : Store(t, in0, in1)

Next == GameFrame(Pads0, Pads1)

Spec == Init /\ [][Next]_vars

\* The timer runs: first rounds in which nobody touches a pad
InitTimer == \E T \in RoundTimes : InitOf(RoundStart(T))

NextTimer == GameFrame(PadsIdle, PadsIdle)

SpecTimer == InitTimer /\ [][NextTimer]_vars

(***************************************************************************)
(* The other frames of the loop of main()                                  *)
(***************************************************************************)
\* Bounds of the runs below
MaxClicks == 4      \* clickDelay() calls explored on the options screen
MoreTicks == 2      \* 10Hz ticks explored beyond the first rounds

\* Values of lrng() for the walls of a new round: none cleared (5), all
\* cleared (6), every second column cleared (7, 0)
WallDraws ==
    { [ m \in FlexElems |-> d ] : d \in {5, 6} }
      \cup { [ m \in FlexElems |-> IF ((m - 1) \div 2) % 2 = 0 THEN 7 ELSE 0 ] }

TitleFrame(ins0) ==
    /\ screen = S_TITLE
    /\ \E in0 \in ins0 :
         \E t \in { handleTitle(GS, in0) } : Store(t, in0, {})

OptionsFrame(ins0) ==
    /\ screen = S_OPTIONS
    /\ \E in0 \in ins0 :
         \E rnd \in (IF startsGame(in0) THEN WallDraws ELSE { << >> }) :
            \E t \in { handleOptions(GS, in0, rnd) } :
               t.clicks <= MaxClicks /\ Store(t, in0, {})

PauseFrame(ins0, ins1) ==
    /\ screen = S_PAUSE
    /\ \E in0 \in ins0, in1 \in ins1 :
         \E t \in { handlePause(GS, in0, in1) } : Store(t, in0, in1)

WinnerFrame(ins0) ==
    /\ screen = S_WINNER
    /\ \E in0 \in ins0 :
         \E t \in { handleWinner(GS, in0) } : Store(t, in0, {})

\* The game screen while counter10Hz, which no round resets, is below its cap
CappedGameFrame(ins0, ins1) ==
    /\ counter10Hz < 10 * DEF_MAX_TIME + MoreTicks
    /\ GameFrame(ins0, ins1)

(***************************************************************************)
(* The options screen: the machine after power-up, on the title screen,    *)
(* with the defaults of main() or with limits an earlier visit of the      *)
(* options screen left                                                     *)
(***************************************************************************)
OptionTimes == { 6 * 10, DEF_MAX_TIME, 99 * 10 }

OptionRates == { 0, DEF_DROP_RATE, 100 }

OptionBombs == { 1, DEF_MAX_BOMBS, MAX_BOMBS }

OptionRanges == { 1, DEF_MAX_RANGE }

InitOptions ==
    /\ gameFieldLow = [ m \in FieldElems |-> 0 ]
    /\ gameFieldHigh = [ m \in FieldElems |-> 0 ]
    /\ aniField = [ m \in FieldElems |-> 0 ]
    /\ ttlField = [ m \in FieldElems |-> 0 ]
    /\ p1 = Player(0, 0, 0, 0, << >>, 0)
    /\ p2 = Player(0, 0, 0, 0, << >>, 0)
    /\ bombChain = NullChain
    /\ bombChainCount = 0
    /\ winner = 0
    /\ screen = S_TITLE
    /\ pad0 = {}
    /\ pad1 = {}
    /\ pausePad = "none"
    /\ gameOver = 0
    /\ framesUntil10Hz = 0
    /\ untilSecond = 0
    /\ counter10Hz = 0
    /\ maxTime \in OptionTimes
    /\ dropRate \in OptionRates
    /\ dropRate255 = 0
    /\ maxBombs \in OptionBombs
    /\ maxRange \in OptionRanges
    /\ visited = {}
    /\ exploded = << >>
    /\ option = 0
    /\ clicks = 0

PadsTitle == { {}, {"A"} }

PadsOptions ==
    { {}, {"A"}, {"B"}, {"UP"}, {"DOWN"}, {"LEFT"}, {"RIGHT"}, {"X"}, {"LEFT", "RIGHT"} }

NextOptions == TitleFrame(PadsTitle) \/ OptionsFrame(PadsOptions)

SpecOptions == InitOptions /\ [][NextOptions]_vars

(***************************************************************************)
(* Rounds in which player 1 walks: a power-up one step to its right, a     *)
(* pillar below that, a bomb of player 2 two elements away whose explosion *)
(* reaches the power-up, both players' elements and a bomb of player 1;    *)
(* the limits of the options screen are reached by both players (1 bomb,   *)
(* range 2) or not (2 bombs, range 3).                                     *)
(***************************************************************************)
WalkRounds ==
    { [ round |-> MidRound(Tiles({<<4, 4>>}, pu) @@ Tiles(Block, FIELD_EMPTY),
                           Player(2 * 8 + 3, 4 * 8, 2, 1, << BombEntry(6, 8, LongFuse) >>,
                                  INVALID_LAST_BOMB_IDX),
                           Player(10 * 8, p2y * 8, 2, 1, << BombEntry(6, 4, f) >>,
                                  INVALID_LAST_BOMB_IDX),
                           DEF_DROP_RATE, TicksLeft),
        mb |-> lim[1], mr |-> lim[2] ] :
      pu \in {FIELD_PU_BOMB, FIELD_PU_RANGE, FIELD_PU_SPEED},
      f \in 1..MaxFuse, p2y \in {4, 12}, lim \in { <<1, 2>>, <<2, 3>> } }

InitWalk == \E sc \in WalkRounds : InitWith(sc.round, sc.mb, sc.mr)

PadsWalk == { {}, {"RIGHT"}, {"DOWN"}, {"RIGHT", "DOWN"} }

NextWalk == GameFrame(PadsWalk, PadsIdle)

SpecWalk == InitWalk /\ [][NextWalk]_vars

\* Rounds that are paused, resumed, abandoned, finished and started again
InitScreens == \E sc \in PlusRounds : InitOf(sc)

PadsPlay0 == { {}, {"START"}, {"A"} }

PadsPlay1 == { {}, {"START"} }

PadsPause0 == { {}, {"A"}, {"START"}, {"SELECT"} }

PadsPause1 == { {}, {"SELECT"}, {"START"} }

PadsWinner == { {}, {"START"} }

PadsRestart == { {}, {"START"}, {"B"}, {"LEFT"} }

NextScreens ==
    \/ CappedGameFrame(PadsPlay0, PadsPlay1)
    \/ PauseFrame(PadsPause0, PadsPlay1)
    \/ WinnerFrame(PadsWinner)
    \/ OptionsFrame(PadsRestart)
    \/ TitleFrame(PadsTitle)

SpecScreens == InitScreens /\ [][NextScreens]_vars

\* The last ticks of a round that either pad pauses, with every way of
\* the two pads to press START and SELECT on the pause screen
NextPause ==
    \/ GameFrame(PadsPlay1, PadsPlay1)
    \/ PauseFrame(PadsPause0, PadsPause1)

SpecPause == InitScreens /\ [][NextPause]_vars

\* The first round, in which each player may place its bomb in any frame
\* before the one of the first tick and waits for it to go off
InitFuse == InitOf(RoundStart(DEF_MAX_TIME))

PadsFuse == IF counter10Hz = 0 /\ framesUntil10Hz > 1 THEN Pads0 ELSE PadsIdle

FuseFrame ==
    /\ counter10Hz < BOMB_TTL + MoreTicks
    /\ GameFrame(PadsFuse, PadsFuse)

NextFuse == FuseFrame

SpecFuse == InitFuse /\ [][NextFuse]_vars

\* Rounds in an arena without walls: a bomb of the largest range at a
\* corner, an edge or the middle of the arena, and both players in their
\* corners, walking against the border
OpenCells ==
    { c \in {2, 4, 6, 8, 10, 12, 14, 16, 18, 20, 22, 24, 26} \X {4, 6, 8, 10, 12, 14, 16, 18, 20, 22, 24} :
        At(c[1], c[2]) \in FieldElems }

EdgeRounds ==
    { MidRound(Tiles(OpenCells, FIELD_EMPTY),
               Player(2 * 8, 4 * 8, MAX_RANGE, 2, << BombEntry(b[1], b[2], f) >>,
                      INVALID_LAST_BOMB_IDX),
               Player(26 * 8, 24 * 8, MAX_RANGE, 1, << >>, INVALID_LAST_BOMB_IDX),
               DEF_DROP_RATE, TicksLeft) :
      b \in { <<26, 4>>, <<2, 24>>, <<14, 14>>, <<2, 14>>, <<14, 24>> }, f \in 1..MaxFuse }

InitEdge == \E sc \in EdgeRounds : InitOf(sc)

PadsEdge0 == { {}, {"A"}, {"LEFT", "UP"} }

PadsEdge1 == { {}, {"RIGHT", "DOWN"} }

NextEdge == GameFrame(PadsEdge0, PadsEdge1)

SpecEdge == InitEdge /\ [][NextEdge]_vars

(***************************************************************************)
(* Rounds in an arena without walls with all bombs of player 1 in the      *)
(* upper row, placed from left to right one field element after the other  *)
(* (16 frames of walking apart), the first one about to explode, player 1  *)
(* having walked on to (18,8).  Player 2, wearing the boots (8 frames per  *)
(* field element), has placed none, or all of its bombs next to that row   *)
(* and down the right column, or one bomb apart at (22,8) in the tick of   *)
(* player 1's first one and the other eight as before, and has walked on   *)
(* to (26,18).  A bomb is as many ticks younger than the first one as      *)
(* ticks have passed between the two placements.                           *)
(***************************************************************************)
FullRounds ==
    LET age1  == << 0, 3, 6, 9, 13, 16, 19, 22, 25 >>
        age2  == << 3, 5, 6, 8, 9, 11, 13, 14, 16 >>
        cell2 == << <<20, 4>>, <<22, 4>>, <<24, 4>>, <<26, 4>>, <<26, 6>>,
                    <<26, 8>>, <<26, 10>>, <<26, 12>>, <<26, 14>> >>
        row1(f)  == [ k \in 1..MAX_BOMBS |-> BombEntry(2 * k, 4, f + age1[k]) ]
        col2(f)  == [ k \in 1..MAX_BOMBS |->
                        BombEntry(cell2[k][1], cell2[k][2], f + age2[k]) ]
        apart(f) == [ k \in 1..MAX_BOMBS |->
                        IF k = 1 THEN BombEntry(22, 8, f)
                        ELSE BombEntry(cell2[k - 1][1], cell2[k - 1][2], f + age2[k]) ]
    IN  { MidRound(Tiles(OpenCells, FIELD_EMPTY),
                   Player(18 * 8, 8 * 8, 1, MAX_BOMBS, row1(f), INVALID_LAST_BOMB_IDX),
                   [ Player(26 * 8, 18 * 8, 1, MAX_BOMBS,
                            CASE v = 0 -> << >> [] v = 1 -> col2(f) [] OTHER -> apart(f),
                            INVALID_LAST_BOMB_IDX)
                       EXCEPT !.running = BOOTS_TTL - 2 * BOMB_TTL ],
                   DEF_DROP_RATE, TicksLeft) :
          f \in 1..MaxFuse, v \in 0..2 }

InitFull == \E sc \in FullRounds : InitWith(sc, MAX_BOMBS, DEF_MAX_RANGE)

NextFull == GameFrame(PadsIdle, Pads0)

SpecFull == InitFull /\ [][NextFull]_vars

(***************************************************************************)
(* Rounds with two bombs out of each other's reach whose explosions cross: *)
(* player 1's at (6,4) with range 2 goes off first, player 2's at (2,8)    *)
(* with range 3 one to three ticks later, its flames crossing (6,8) and    *)
(* (2,4) on the second step.                                               *)
(***************************************************************************)
CrossRounds ==
    { MidRound(Tiles(Block, FIELD_EMPTY),
               Player(10 * 8, 12 * 8, 2, 1, << BombEntry(6, 4, f) >>, INVALID_LAST_BOMB_IDX),
               Player(10 * 8, 10 * 8, 3, 1, << BombEntry(2, 8, f + d) >>, INVALID_LAST_BOMB_IDX),
               DEF_DROP_RATE, f + 2 + TicksLeft) :
      f \in 1..MaxFuse, d \in 1..3 }

InitCross == \E sc \in CrossRounds : InitOf(sc)

SpecCross == InitCross /\ [][Next]_vars

(***************************************************************************)
(* Rounds as the ones before in which player 2's bomb goes off three to    *)
(* five ticks after player 1's: while the flame on (6,8) is in its last    *)
(* frame, in the tick that ends it, or in the tick after.                  *)
(***************************************************************************)
RekindleRounds ==
    { MidRound(Tiles(Block, FIELD_EMPTY),
               Player(10 * 8, 12 * 8, 2, 1, << BombEntry(6, 4, f) >>, INVALID_LAST_BOMB_IDX),
               Player(10 * 8, 10 * 8, 3, 1, << BombEntry(2, 8, f + d) >>, INVALID_LAST_BOMB_IDX),
               DEF_DROP_RATE, f + 6 + TicksLeft) :
      f \in 1..MaxFuse, d \in 3..5 }

InitRekindle == \E sc \in RekindleRounds : InitOf(sc)

SpecRekindle == InitRekindle /\ [][NextFull]_vars

(***************************************************************************)
(* Rounds in which player 1 is about to step off the bomb it placed last:  *)
(* to the right of a bomb at (4,4) or below a bomb at (2,4), its center    *)
(* being on the next field element already, with and without the boots.    *)
(***************************************************************************)
ExitRounds ==
    { MidRound(Tiles(Block, FIELD_EMPTY),
               [ Player(c[1], c[2], 1, 2, << BombEntry(c[3], 4, f) >>, 0)
                   EXCEPT !.running = r ],
               Player(10 * 8, 12 * 8, 1, 1, << >>, INVALID_LAST_BOMB_IDX),
               DEF_DROP_RATE, TicksLeft) :
      c \in { <<42, 32, 4>>, <<16, 36, 2>> }, f \in {MaxFuse, LongFuse}, r \in {0, BOOTS_TTL} }

InitExit == \E sc \in ExitRounds : InitOf(sc)

PadsExit == { {}, {"A"}, {"LEFT"}, {"RIGHT"}, {"UP"}, {"DOWN"} }

NextExit == GameFrame(PadsExit, PadsIdle)

SpecExit == InitExit /\ [][NextExit]_vars

(***************************************************************************)
(* Rounds in which player 1 walks onto a power-up one step to its right,   *)
(* the speed or the range power-up, with its boost timer off, about to run *)
(* out or full, while a bomb of its own, out of reach, is about to go off. *)
(***************************************************************************)
PickRounds ==
    { MidRound(Tiles({<<4, 4>>}, pu) @@ Tiles(Block, FIELD_EMPTY),
               [ Player(2 * 8 + 3, 4 * 8, 2, 1, << BombEntry(10, 12, f) >>,
                        INVALID_LAST_BOMB_IDX) EXCEPT !.running = r ],
               Player(2 * 8, 12 * 8, 1, 1, << >>, INVALID_LAST_BOMB_IDX),
               DEF_DROP_RATE, TicksLeft) :
      pu \in {FIELD_PU_RANGE, FIELD_PU_SPEED}, f \in 1..MaxFuse, r \in {0, 1, 2, BOOTS_TTL} }

InitPick == \E sc \in PickRounds : InitOf(sc)

SpecPick == InitPick /\ [][NextWalk]_vars

(***************************************************************************)
(* Vocabulary of the properties                                            *)
(***************************************************************************)
Players == {1, 2}

CurPl(n) == IF n = 1 THEN p1 ELSE p2

NextPl(n) == IF n = 1 THEN p1' ELSE p2'

\* The frame that starts in this state runs the 10Hz block
TickDue == framesUntil10Hz = 1

High(s, m) == IF m \in DOMAIN s.high THEN s.high[m] ELSE 0

\* Field element m has the same tile, attribute and timers in t as now
Same(t, m) ==
    /\ Low(t, m) = Low(GS, m)
    /\ High(t, m) = High(GS, m)
    /\ Ani(t, m) = Ani(GS, m)
    /\ Ttl(t, m) = Ttl(GS, m)

\* The four directions of an explosion: left, right, up, down
Dirs == { <<-2, 0>>, <<2, 0>>, <<0, -2>>, <<0, 2>> }

\* The field element d steps from (x, y) in direction dir
Step(x, y, dir, d) == At(x + d * dir[1], y + d * dir[2])

PowerUps == { FTYPE_PU_BOMB, FTYPE_PU_RANGE, FTYPE_PU_SPEED }

Bombs == { FTYPE_BOMB_P1, FTYPE_BOMB_P2 }

EndTiles == { FIELD_EXPL_END_X, FIELD_EXPL_END_X + 1, FIELD_EXPL_END_Y, FIELD_EXPL_END_Y + 16 }

PartTiles == { FIELD_EXPL_PART_X, FIELD_EXPL_PART_X + 1, FIELD_EXPL_PART_Y, FIELD_EXPL_PART_Y + 16 }

\* Slots of player n that hold a bomb dropped in this step
PlacedSlots(n) ==
    { i \in 0..(MAX_BOMBS - 1) :
        /\ NextPl(n).bombList[i].ttl = BOMB_TTL
        /\ CurPl(n).bombList[i].ttl = 0 \/ TickDue }

\* Slots of player n whose bomb is gone after this step
DetonatedSlots(n) ==
    { i \in 0..(MAX_BOMBS - 1) :
        /\ CurPl(n).bombList[i].ttl > 0
        /\ TickDue
        /\ NextPl(n).bombList[i].ttl \in {0, BOMB_TTL} }

(***************************************************************************)
(* C1                                                                      *)
(***************************************************************************)
BombsInRange(pl) == 0 <= pl.bombs /\ pl.bombs <= pl.maxBombs

\* C1: for each player 0 <= bombs <= maxBombs after every step, and the
\* step changes bombs by exactly -1 for the bomb it drops and +1 for each
\* of the player's bombs it detonates, by timer or by chain trigger (and by
\* +1 together with maxBombs when a bomb power-up is collected).
C1_BombsAccount ==
    [][ \A n \in Players :
          /\ BombsInRange(NextPl(n))
          /\ Cardinality(PlacedSlots(n)) <= 1
          /\ NextPl(n).bombs = CurPl(n).bombs - Cardinality(PlacedSlots(n))
                               + Cardinality(DetonatedSlots(n))
                               + (NextPl(n).maxBombs - CurPl(n).maxBombs) ]_vars

\* Player 1 has got back both bombs in this frame, one of them through the
\* chain queue, and has dropped one of them again.
C1_PlacedAndDetonated ==
    /\ bombChainCount = 2
    /\ \E i \in 0..(bombChainCount - 1) : bombChain[i].owner = 1
    /\ Len(exploded) = 3
    /\ \E i \in LiveBombs(p1) : p1.bombList[i].ttl = BOMB_TTL
    /\ p1.bombs = p1.maxBombs - 1

(***************************************************************************)
(* C2                                                                      *)
(***************************************************************************)
\* The R field elements next to (x, y) in every direction are empty
OpenFor(R, x, y) ==
    \A dir \in Dirs : \A d \in 1..R : FieldType(GS, Step(x, y, dir, d)) = FTYPE_EMPTY

\* C2: for a live bomb whose R neighbours in each direction are all empty,
\* handleExplosion with range R leaves the bomb's field element as the
\* explosion center with frame count 4, the elements at distance 1..R in
\* each direction as flames with frame count 4 and timer
\* EXPLOSION_ANIMATION, the one at distance R an end segment and the nearer
\* ones through segments, and every other field element as it was.
C2_PlusPattern ==
    \A n \in Players : \A i \in LiveBombs(CurPl(n)) : \A R \in 1..MAX_RANGE :
        LET b   == CurPl(n).bombList[i]
            c   == At(b.x, b.y)
            arm == { Step(b.x, b.y, dir, d) : dir \in Dirs, d \in 1..R }
            t   == handleExplosion(GS, R, b.x, b.y)
        IN  OpenFor(R, b.x, b.y) =>
              /\ Low(t, c) = FIELD_EXPL_MID
              /\ Ani(t, c) = 4
              /\ Ttl(t, c) = EXPLOSION_ANIMATION
              /\ \A dir \in Dirs : \A d \in 1..R :
                   LET m == Step(b.x, b.y, dir, d)
                   IN  /\ FieldType(t, m) = FTYPE_FLAME
                       /\ Ani(t, m) = 4
                       /\ Ttl(t, m) = EXPLOSION_ANIMATION
                       /\ IF d = R THEN Low(t, m) \in EndTiles ELSE Low(t, m) \in PartTiles
              /\ \A m \in FieldElems \ (arm \cup {c}) : Same(t, m)

\* The bomb at (6, 8) has exploded with range 2 in the open: the center and
\* the four end segments two steps away are in the grid.
C2_PlusSeen ==
    /\ exploded = << [x |-> 6, y |-> 8, range |-> 2] >>
    /\ gameFieldLow[At(6, 8)] = FIELD_EXPL_MID
    /\ aniField[At(6, 8)] = 4
    /\ \A dir \in Dirs :
         /\ gameFieldLow[Step(6, 8, dir, 1)] \in PartTiles
         /\ gameFieldLow[Step(6, 8, dir, 2)] \in EndTiles
         /\ aniField[Step(6, 8, dir, 2)] = 4

(***************************************************************************)
(* C3                                                                      *)
(***************************************************************************)
\* Distance of the first field element within R steps that is neither empty
\* nor a flame, 0 if there is none
FirstBlock(x, y, dir, R) ==
    LET B == { d \in 1..R : FieldType(GS, Step(x, y, dir, d)) \notin {FTYPE_EMPTY, FTYPE_FLAME} }
    IN  IF B = {} THEN 0 ELSE Min(B)

\* C3: in each direction the explosion of a live bomb with its owner's
\* range stops at the first solid, bricked, power-up or bomb element: no
\* element beyond it is visited or changed, a solid one and a bomb are left
\* as they are, a bricked one is ignited unless it burns already, a
\* power-up becomes empty.
C3_StopsAtObstacle ==
    \A n \in Players : \A i \in LiveBombs(CurPl(n)) :
        LET b == CurPl(n).bombList[i]
            R == CurPl(n).range
            t == handleExplosion(GS, R, b.x, b.y)
        IN  \A dir \in Dirs :
              LET d0 == FirstBlock(b.x, b.y, dir, R)
                  m0 == Step(b.x, b.y, dir, d0)
                  ft == FieldType(GS, m0)
              IN  d0 # 0 =>
                    /\ m0 \in t.visited
                    /\ \A d \in (d0 + 1)..(2 * MAX_RANGE) :
                         /\ Step(b.x, b.y, dir, d) \notin t.visited
                         /\ Same(t, Step(b.x, b.y, dir, d))
                    /\ ft \in {FTYPE_SOLID} \cup Bombs => Same(t, m0)
                    /\ ft = FTYPE_BRICKED =>
                         IF Ani(GS, m0) = 0
                         THEN /\ Low(t, m0) = FIELD_BRICKED + 2
                              /\ Ani(t, m0) = 4
                              /\ Ttl(t, m0) = EXPLOSION_ANIMATION
                         ELSE Same(t, m0)
                    /\ ft \in PowerUps => Low(t, m0) = FIELD_EMPTY

\* The bomb at (6, 8) has exploded with range 3: the power-up two steps to
\* the right is gone and the wall behind it stands, the wall one step to
\* the left burns and the empty element behind it is untouched.
C3_StoppedSeen ==
    /\ exploded = << [x |-> 6, y |-> 8, range |-> 3] >>
    /\ gameFieldLow[At(10, 8)] = FIELD_EMPTY
    /\ gameFieldLow[At(12, 8)] = FIELD_BRICKED
    /\ gameFieldLow[At(4, 8)] = FIELD_BRICKED + 2
    /\ aniField[At(4, 8)] = 4
    /\ gameFieldLow[At(2, 8)] = FIELD_EMPTY
    /\ aniField[At(2, 8)] = 0

(***************************************************************************)
(* C4                                                                      *)
(***************************************************************************)
\* C4: every bomb the tick puts on the chain queue was live before the
\* tick, is queued with the range of its owner, and is exploded with that
\* range.
C4_ChainUsesOwnRange ==
    [][ TickDue =>
          \A i \in 0..(bombChainCount' - 1) :
             LET e   == bombChain'[i]
                 own == CurPl(e.owner)
                 b   == own.bombList[e.idx]
             IN  /\ b.ttl > 0
                 /\ e.range = own.range
                 /\ \E k \in 1..Len(exploded') :
                      exploded'[k] = [x |-> b.x, y |-> b.y, range |-> own.range] ]_vars

\* Player 1's bomb of range 1 has triggered player 2's bomb at (4, 4),
\* which has exploded with range 2.
C4_ChainSeen ==
    /\ bombChainCount >= 1
    /\ bombChain[0] = [range |-> 2, owner |-> 2, idx |-> 0]
    /\ p1.range = 1
    /\ p2.range = 2
    /\ Len(exploded) >= 2
    /\ exploded[1] = [x |-> 2, y |-> 4, range |-> 1]
    /\ \E k \in 2..Len(exploded) : exploded[k] = [x |-> 4, y |-> 4, range |-> 2]
    /\ FieldType(GS, At(8, 4)) = FTYPE_FLAME

(***************************************************************************)
(* C5                                                                      *)
(***************************************************************************)
\* C5: the tick ends with every bomb that is gone exploded exactly once
\* (no two explosions at the same field element, as many explosions as
\* bombs gone), no bomb queued twice, and afterwards the free and the live
\* bombs of each player add up to maxBombs; a frame without tick explodes
\* nothing.
C5_DetonatedOnce ==
    [][ /\ TickDue =>
             /\ \A k, l \in 1..Len(exploded') :
                  k # l => At(exploded'[k].x, exploded'[k].y) # At(exploded'[l].x, exploded'[l].y)
             /\ Len(exploded') = Cardinality(DetonatedSlots(1)) + Cardinality(DetonatedSlots(2))
             /\ bombChainCount' <= Len(exploded')
             /\ \A i, j \in 0..(bombChainCount' - 1) :
                  i # j => << bombChain'[i].owner, bombChain'[i].idx >>
                             # << bombChain'[j].owner, bombChain'[j].idx >>
        /\ ~ TickDue => exploded' = << >>
        /\ \A n \in Players :
             NextPl(n).bombs + Cardinality(LiveBombs(NextPl(n))) = NextPl(n).maxBombs ]_vars

\* Three mutually adjacent bombs have gone off in one tick, two of them
\* through the chain queue, and both players hold all their bombs again.
C5_ChainResolved ==
    /\ Len(exploded) = 3
    /\ bombChainCount = 2
    /\ p1.bombs = p1.maxBombs
    /\ p2.bombs = p2.maxBombs
    /\ LiveBombs(p1) = {}
    /\ LiveBombs(p2) = {}

(***************************************************************************)
(* C6                                                                      *)
(***************************************************************************)
\* C6: a live bomb of either player whose field element an explosion of
\* the step reaches is gone after the step.
C6_ReachedBombDetonates ==
    [][ \A n \in Players : \A i \in LiveBombs(CurPl(n)) :
          At(CurPl(n).bombList[i].x, CurPl(n).bombList[i].y) \in visited'
             => NextPl(n).bombList[i].ttl \in {0, BOMB_TTL} ]_vars

(***************************************************************************)
(* C7                                                                      *)
(***************************************************************************)
\* C7: the field element of every live bomb classifies as a bomb of the
\* player who dropped it, and shows that player's frame 0 tile while the
\* bomb has its full time to live.
C7_PlacedBombShowsOwner ==
    \A n \in Players : \A i \in LiveBombs(CurPl(n)) :
        LET b == CurPl(n).bombList[i]
            m == At(b.x, b.y)
        IN  /\ FieldType(GS, m) = (IF n = 1 THEN FTYPE_BOMB_P1 ELSE FTYPE_BOMB_P2)
            /\ b.ttl = BOMB_TTL =>
                 Low(GS, m) = (IF n = 1 THEN FIELD_BOMB_P1 ELSE FIELD_BOMB_P2)

(***************************************************************************)
(* C8                                                                      *)
(***************************************************************************)
\* C8: in a round with dropRate = 0 no step turns a field element into a
\* power-up.
C8_NoDropAtRateZero ==
    [][ dropRate = 0 =>
          \A k \in FieldElems :
             fTypeMap(gameFieldLow'[k]) \in PowerUps => fTypeMap(gameFieldLow[k]) \in PowerUps ]_vars

(***************************************************************************)
(* C9                                                                      *)
(***************************************************************************)
\* C9: in a round with dropRate = 100 the scaled rate is 255, and the
\* decay of every bricked wall in its last frame ends in a power-up for
\* every draw: for every combination of the bits the code reads, and in
\* the decay loop for every explored draw.
C9_AlwaysDropAtRateFull ==
    dropRate = 100 =>
       /\ dropRate255 = 255
       /\ \A k \in DiceElems(GS) :
            /\ \A d \in DrawValues :
                 fTypeMap(decayField(gameFieldLow[k], gameFieldHigh[k], aniField[k],
                                     ttlField[k], d, dropRate255).low) \in PowerUps
            /\ \A d \in Draws :
                 FieldType(decayLoop(GS, 1, [j \in DiceElems(GS) |-> d]), k) \in PowerUps

\* With dropRate = 100 the wall at (4, 8) has burnt down to a power-up.
C9_DropSeen ==
    /\ dropRate = 100
    /\ fTypeMap(gameFieldLow[At(4, 8)]) \in PowerUps
    /\ aniField[At(4, 8)] = 0
    /\ counter10Hz > 10 * DEF_MAX_TIME - TicksLeft

(***************************************************************************)
(* C10                                                                     *)
(***************************************************************************)
\* C10: in a round of maxTime seconds without flames the winner is
\* undecided and the game screen stays while fewer than 10 * maxTime ticks
\* have run, and the 10 * maxTime-th tick, the last one of the round,
\* declares the draw.
C10_DrawAtTimeout ==
    /\ counter10Hz < 10 * maxTime => winner = WINNER_NA /\ screen = S_GAME
    /\ counter10Hz >= 10 * maxTime =>
         /\ counter10Hz = 10 * maxTime
         /\ winner = WINNER_DRAW
         /\ screen = S_WINNER

\* The default round of 180 seconds has ended in a draw at tick 1800.
C10_DrawSeen ==
    /\ maxTime = DEF_MAX_TIME
    /\ counter10Hz = 1800
    /\ winner = WINNER_DRAW
    /\ gameOver = 0

(***************************************************************************)
(* C11                                                                     *)
(***************************************************************************)
\* Every combination of the directional keys
DirPads == { l \cup r \cup u \cup d : l \in { {}, {"LEFT"} }, r \in { {}, {"RIGHT"} },
                                      u \in { {}, {"UP"} }, d \in { {}, {"DOWN"} } }

\* The field element column (row) of the leading edge of the bounding box
\* after a step by the unit delta
LeadCol(pl, dx) == TileOf(((pl.x + dx + 256) % 256) + (IF dx > 0 THEN P_RIGHT ELSE P_LEFT))

LeadRow(pl, dy) == TileOf(((pl.y + dy + 256) % 256) + (IF dy > 0 THEN P_BOTTOM ELSE P_TOP))

\* The position one movement step yields by the rule of the claim: an axis
\* moves by its delta if and only if the delta is not 0 and both leading
\* corners can be entered; the y axis is resolved at the x just reached.
SteppedTo(s, pl, pad) ==
    LET dx  == padDx(pad)
        dy  == padDy(pad)
        okx == /\ dx # 0
               /\ canEnter(s, pl, LeadCol(pl, dx), TileOf(pl.y + P_TOP))
               /\ canEnter(s, pl, LeadCol(pl, dx), TileOf(pl.y + P_BOTTOM))
        px  == [pl EXCEPT !.x = IF okx THEN (pl.x + dx + 256) % 256 ELSE pl.x]
        oky == /\ dy # 0
               /\ canEnter(s, px, TileOf(px.x + P_LEFT), LeadRow(px, dy))
               /\ canEnter(s, px, TileOf(px.x + P_RIGHT), LeadRow(px, dy))
    IN  << px.x, IF oky THEN (pl.y + dy + 256) % 256 ELSE pl.y >>

\* C11: one movement step changes a coordinate, by the unit delta, exactly
\* when both leading corners of the bounding box on that axis can be
\* entered, whatever holds at the other corners, and resolves the other
\* axis by the same rule; this for every combination of directional keys
\* applied to each player in every state, and for the position a player
\* has after every frame without a tick in which it takes one step.
C11_MovesIfLeadingCornersFree ==
    [][ /\ \A n \in Players : \A pad \in DirPads :
             LET q == Pl(moveStep(GS, pad, n), n)
             IN  << q.x, q.y >> = SteppedTo(GS, CurPl(n), pad)
        /\ (screen = S_GAME /\ ~TickDue) =>
             /\ p1.running = 0 => << p1'.x, p1'.y >> = SteppedTo(GS, p1, pad0')
             /\ p2.running = 0 => << p2'.x, p2'.y >> = SteppedTo(GS, p2, pad1')
      ]_vars

\* Player 1 holds RIGHT and DOWN with its right edge above the pillar at
\* (4, 6): it has moved right but not down, though the element below its
\* left edge is free.
C11_OneAxisBlockedSeen ==
    /\ pad0 = {"RIGHT", "DOWN"}
    /\ p1.x \in 20..22
    /\ p1.y = 4 * 8
    /\ canEnter(GS, p1, TileOf(p1.x + P_LEFT), LeadRow(p1, 1))
    /\ ~canEnter(GS, p1, TileOf(p1.x + P_RIGHT), LeadRow(p1, 1))
    /\ FieldType(GS, At(4, 6)) = FTYPE_SOLID

(***************************************************************************)
(* C12                                                                     *)
(***************************************************************************)
\* The field elements around the cleared block, border and pillars included
NearCells == { <<x, y>> : x \in {0, 2, 4, 6, 8, 10, 12}, y \in {2, 4, 6, 8, 10, 12, 14} }

\* The player pl and, for a bomb at (x, y), the same player with every
\* kind of last placed bomb: none, one at (x, y) or next to it, alive or
\* not, in the first or the last slot.
LastBombVariants(pl, x, y) ==
    { pl, [pl EXCEPT !.lastBombIdx = INVALID_LAST_BOMB_IDX] }
      \cup { [pl EXCEPT !.lastBombIdx = i,
                        !.bombList[i] = [@ EXCEPT !.ttl = t, !.x = bx, !.y = y]] :
             i \in {0, MAX_BOMBS - 1}, t \in {0, 1, BOMB_TTL}, bx \in {x, x + 2} }

\* C12: canEnter holds for an empty element, each power-up and a flame;
\* for a bomb of either owner it holds exactly when the player's
\* lastBombIdx is valid and the bomb in that slot is alive and lies on the
\* element; it fails for a solid and for a bricked element.
C12_CanEnterByType ==
    \A n \in Players : \A c \in NearCells :
       LET ft == FieldType(GS, At(c[1], c[2]))
       IN  /\ ft \in {FTYPE_EMPTY, FTYPE_PU_BOMB, FTYPE_PU_RANGE, FTYPE_PU_SPEED, FTYPE_FLAME} =>
                canEnter(GS, CurPl(n), c[1], c[2])
           /\ ft \in {FTYPE_SOLID, FTYPE_BRICKED} => ~canEnter(GS, CurPl(n), c[1], c[2])
           /\ ft \in {FTYPE_BOMB_P1, FTYPE_BOMB_P2} =>
                \A pl \in LastBombVariants(CurPl(n), c[1], c[2]) :
                   canEnter(GS, pl, c[1], c[2])
                     <=> /\ pl.lastBombIdx # INVALID_LAST_BOMB_IDX
                         /\ pl.bombList[pl.lastBombIdx].ttl > 0
                         /\ pl.bombList[pl.lastBombIdx].x = c[1]
                         /\ pl.bombList[pl.lastBombIdx].y = c[2]
           /\ ft \in {FTYPE_EMPTY, FTYPE_PU_BOMB, FTYPE_PU_RANGE, FTYPE_PU_SPEED, FTYPE_FLAME,
                      FTYPE_SOLID, FTYPE_BRICKED, FTYPE_BOMB_P1, FTYPE_BOMB_P2}

\* Player 1 stands on the bomb it placed last and may enter that element
\* but not the one of player 2's bomb, while a flame and a power-up or a
\* burning wall are on the field.
C12_OwnBombSeen ==
    /\ p1.lastBombIdx = 1
    /\ canEnter(GS, p1, 10, 12)
    /\ FieldType(GS, At(10, 12)) = FTYPE_BOMB_P1
    /\ FieldType(GS, At(2, 8)) \in Bombs
    /\ ~canEnter(GS, p1, 2, 8)
    /\ \E m \in FieldElems : FieldType(GS, m) = FTYPE_FLAME
    /\ FieldType(GS, At(4, 8)) \in PowerUps \cup {FTYPE_BRICKED}

(***************************************************************************)
(* C13                                                                     *)
(***************************************************************************)
\* The corners of the bounding box, as offsets from the sprite position
CornerOffsets == {P_LEFT, P_RIGHT} \X {P_TOP, P_BOTTOM}

\* The field element under a corner of player pl
CornerOf(pl, o) == TILE_OFFSET_1(TileOf(pl.x + o[1]), TileOf(pl.y + o[2]))

\* Whether a corner of pl lies on a flame of the grid low
TouchesFlame(low, pl) ==
    \E o \in CornerOffsets :
       CornerOf(pl, o) \in DOMAIN low /\ fTypeMap(low[CornerOf(pl, o)]) = FTYPE_FLAME

\* C13: after every frame of the game screen, a player with a corner of its
\* bounding box on a flame has made the other player a winner (winner is
\* that player or the draw), and with both players on flames winner is the
\* draw; the check of a corner that lies on a flame changes nothing but
\* winner, so the flame stays as it is.
C13_FlameMarksOther ==
    [][ /\ screen = S_GAME =>
             /\ TouchesFlame(gameFieldLow', p1') => winner' \in {WINNER_P2, WINNER_DRAW}
             /\ TouchesFlame(gameFieldLow', p2') => winner' \in {WINNER_P1, WINNER_DRAW}
             /\ TouchesFlame(gameFieldLow', p1') /\ TouchesFlame(gameFieldLow', p2') =>
                  winner' = WINNER_DRAW
        /\ \A n \in Players : \A o \in CornerOffsets :
             FieldType(GS, CornerOf(CurPl(n), o)) = FTYPE_FLAME =>
                LET t == checkPlayerCollision(GS, n, o[1], o[2])
                IN  /\ t.winner \in {IF n = 1 THEN WINNER_P2 ELSE WINNER_P1, WINNER_DRAW}
                    /\ [t EXCEPT !.winner = winner] = GS
      ]_vars

\* Both players stand on flames of the same explosion before the time is
\* up, and the round is a draw.
C13_BothInFlameSeen ==
    /\ TouchesFlame(gameFieldLow, p1)
    /\ TouchesFlame(gameFieldLow, p2)
    /\ winner = WINNER_DRAW
    /\ gameOver > 0
    /\ screen = S_WINNER

\* Player 1 alone stands on a flame and player 2 has won.
C13_OneInFlameSeen ==
    /\ TouchesFlame(gameFieldLow, p1)
    /\ ~TouchesFlame(gameFieldLow, p2)
    /\ winner = WINNER_P2

(***************************************************************************)
(* C14                                                                     *)
(***************************************************************************)
\* The state with the power-up pu under corner o of player n, and that
\* player with every combination of stats below and at the limits
PickupCases(n, o, pu) ==
    { SetPl([GS EXCEPT !.low[CornerOf(CurPl(n), o)] = pu], n,
            [CurPl(n) EXCEPT !.maxBombs = mb, !.bombs = b, !.range = r]) :
      mb \in {CurPl(n).maxBombs, maxBombs}, b \in {0, CurPl(n).bombs},
      r \in {CurPl(n).range, maxRange} }

\* C14: during a round no player's maxBombs exceeds the configured
\* maxBombs and no player's range the configured maxRange; the check of a
\* corner on a bomb power-up raises the player's maxBombs and bombs by one
\* only below the limit, on a range power-up raises range by one only below
\* the limit, on a speed power-up sets running to BOOTS_TTL, changes
\* nothing else of the player, and leaves the element empty in all cases,
\* at the limit too.
C14_PickupsCapped ==
    /\ \A n \in Players : CurPl(n).maxBombs <= maxBombs /\ CurPl(n).range <= maxRange
    /\ \A n \in Players : \A o \in CornerOffsets :
         CornerOf(CurPl(n), o) \in FieldElems =>
           \A pu \in {FIELD_PU_BOMB, FIELD_PU_RANGE, FIELD_PU_SPEED} :
             \A s \in PickupCases(n, o, pu) :
               LET pl == Pl(s, n)
                   t  == checkPlayerCollision(s, n, o[1], o[2])
                   up == IF pl.maxBombs < maxBombs THEN 1 ELSE 0
                   ur == IF pl.range < maxRange THEN 1 ELSE 0
               IN  /\ t = clearField(SetPl(s, n, Pl(t, n)), CornerOf(pl, o))
                   /\ Low(t, CornerOf(pl, o)) = FIELD_EMPTY
                   /\ pu = FIELD_PU_BOMB =>
                        Pl(t, n) = [pl EXCEPT !.maxBombs = @ + up, !.bombs = @ + up]
                   /\ pu = FIELD_PU_RANGE => Pl(t, n) = [pl EXCEPT !.range = @ + ur]
                   /\ pu = FIELD_PU_SPEED => Pl(t, n) = [pl EXCEPT !.running = BOOTS_TTL]

\* Player 1 has walked over the power-up with its stats at the limits: the
\* element is empty without an explosion having reached it, and neither
\* maxBombs, range nor the boost timer of the player has changed.
C14_PickupAtCapSeen ==
    /\ screen = S_GAME
    /\ maxBombs = 1 /\ maxRange = 2
    /\ Low(GS, At(4, 4)) = FIELD_EMPTY
    /\ p2.bombList[0].ttl > 0
    /\ p1.maxBombs = 1 /\ p1.range = 2 /\ p1.running = 0
    /\ \E o \in CornerOffsets : CornerOf(p1, o) = At(4, 4)

\* Player 1 has picked up a power-up below the limits and gained from it.
C14_PickupBelowCapSeen ==
    /\ maxBombs = 2 /\ maxRange = 3
    /\ Low(GS, At(4, 4)) = FIELD_EMPTY
    /\ p2.bombList[0].ttl > 0
    /\ p1.maxBombs = 2 \/ p1.range = 3

(***************************************************************************)
(* C15                                                                     *)
(***************************************************************************)
\* The limits the options screen may hold
ValidLimits(s) ==
    /\ s.maxTime % 10 = 0 /\ 60 <= s.maxTime /\ s.maxTime <= 990
    /\ s.dropRate % 5 = 0 /\ 0 <= s.dropRate /\ s.dropRate <= 100
    /\ 1 <= s.maxBombs /\ s.maxBombs <= 9
    /\ 1 <= s.maxRange /\ s.maxRange <= 9

\* C15: whatever keys the options screen has handled, maxTime is a multiple
\* of 10 in 60..990, dropRate a multiple of 5 in 0..100, maxBombs and
\* maxRange are in 1..9; and from every such value of a limit, with any
\* option selected, each operation of the options screen leads to limits
\* of that kind again.
C15_LimitsStayValid ==
    /\ ValidLimits(GS)
    /\ (screen = S_OPTIONS /\ clicks = 0) =>
         \A o \in {O_TIME, O_DROPRATE, O_BOMBS, O_RANGE} :
           \A in0 \in PadsOptions \ { {"A"} } :
             /\ \A T \in { 10 * i : i \in 6..99 } :
                  ValidLimits(handleOptions([GS EXCEPT !.option = o, !.maxTime = T], in0, << >>))
             /\ \A r \in { 5 * i : i \in 0..20 } :
                  ValidLimits(handleOptions([GS EXCEPT !.option = o, !.dropRate = r], in0, << >>))
             /\ \A b \in 1..9 :
                  /\ ValidLimits(handleOptions([GS EXCEPT !.option = o, !.maxBombs = b], in0, << >>))
                  /\ ValidLimits(handleOptions([GS EXCEPT !.option = o, !.maxRange = b], in0, << >>))

\* LEFT was handled with the round time selected and already at 60 seconds,
\* and RIGHT with the bomb limit selected and already at 9.
C15_ClampSeen ==
    /\ screen = S_OPTIONS
    /\ clicks > 0
    /\ \/ option = O_TIME /\ pad0 = {"LEFT"} /\ maxTime = 60
       \/ option = O_BOMBS /\ pad0 = {"RIGHT"} /\ maxBombs = 9

(***************************************************************************)
(* C16                                                                     *)
(***************************************************************************)
\* The power-ups on the field
PowerUpElems == { m \in FieldElems : FieldType(GS, m) \in PowerUps }

\* Explosion e of the step is the one of a bomb whose timer ran out in the
\* bomb loops of the tick: the bomb had one tick left and no earlier
\* explosion of the tick has freed and queued it before its slot was
\* scanned; a bomb that was queued explodes in the chain loop.
TimedOut(e) ==
    /\ TickDue
    /\ \E n \in Players : \E i \in 0..(MAX_BOMBS - 1) :
          /\ CurPl(n).bombList[i].ttl = 1
          /\ CurPl(n).bombList[i].x = e.x
          /\ CurPl(n).bombList[i].y = e.y
          /\ \A k \in 0..(bombChainCount' - 1) :
                ~(bombChain'[k].owner = n /\ bombChain'[k].idx = i)

\* Field element m is no flame now and is one after the step
SetAflame(m) ==
    /\ FieldType(GS, m) # FTYPE_FLAME
    /\ fTypeMap(gameFieldLow'[m]) = FTYPE_FLAME

\* C16: in a frame of the game screen that runs the 10Hz block, the bombs
\* whose timer runs out explode before the bombs of the chain; an element
\* set aflame in the step still has its full flame timer after it, the
\* decay having run before; when the explosions of the step reach every
\* power-up on the field, no player gains a bomb, range or the speed boost
\* in that step and the power-ups are gone; a player with a corner on an
\* element set aflame in the step has made the other player a winner in
\* the same step; and a step that sets winner leaves the game screen for
\* the winner screen.
C16_PhasesInOrder ==
    [][ screen = S_GAME /\ TickDue =>
          /\ \A k, l \in 1..Len(exploded') :
               k < l => ~(~TimedOut(exploded'[k]) /\ TimedOut(exploded'[l]))
          /\ \A m \in FieldElems :
               SetAflame(m) => aniField'[m] = 4 /\ ttlField'[m] = EXPLOSION_ANIMATION
          /\ PowerUpElems # {} /\ PowerUpElems \subseteq visited' =>
               /\ \A m \in PowerUpElems : fTypeMap(gameFieldLow'[m]) \notin PowerUps
               /\ \A n \in Players :
                    /\ NextPl(n).maxBombs = CurPl(n).maxBombs
                    /\ NextPl(n).range = CurPl(n).range
                    /\ NextPl(n).running # BOOTS_TTL
          /\ \A n \in Players :
               (\E o \in CornerOffsets : CornerOf(NextPl(n), o) \in FieldElems
                                         /\ SetAflame(CornerOf(NextPl(n), o)))
                 => winner' \in {IF n = 1 THEN WINNER_P2 ELSE WINNER_P1, WINNER_DRAW}
          /\ winner' # WINNER_NA => screen' = S_WINNER
      ]_vars

\* The step in which player 2's bomb went off by its timer and player 1's
\* bomb by the chain has burnt the power-up player 1 was stepping onto:
\* player 1 stands on the element, which is empty, without a gain, and
\* player 2, standing in its own flame, has lost in the same step.
C16_PowerUpBurntFirstSeen ==
    /\ Len(exploded) = 2
    /\ exploded[1] = [x |-> 6, y |-> 4, range |-> 2]
    /\ exploded[2].x = 6 /\ exploded[2].y = 8
    /\ At(4, 4) \in visited
    /\ Low(GS, At(4, 4)) = FIELD_EMPTY
    /\ \E o \in CornerOffsets : CornerOf(p1, o) = At(4, 4)
    /\ p1.maxBombs = 1 /\ p1.range = 2 /\ p1.running = 0
    /\ maxBombs = 2 /\ maxRange = 3
    /\ TouchesFlame(gameFieldLow, p2)
    /\ winner = WINNER_P1
    /\ screen = S_WINNER

(***************************************************************************)
(* C17                                                                     *)
(***************************************************************************)
\* The state of the simulation: grid, timers, bombs, players, time, winner
simVars ==
    << gameFieldLow, gameFieldHigh, aniField, ttlField, p1, p2, bombChain, bombChainCount,
       winner, gameOver, framesUntil10Hz, untilSecond, counter10Hz, dropRate255 >>

\* C17: a frame of the pause screen changes nothing of the simulation,
\* whether the game stays paused, resumes or is abandoned: grid tiles and
\* tile timers, the bomb slots, positions and stats of both players, the
\* remaining time, the counters of the 10Hz block and winner are after the
\* frame what they were before it, so that they are on resuming what they
\* were when the pause began, however many frames were spent paused.
C17_PauseFreezes ==
    [][ screen = S_PAUSE => UNCHANGED simVars ]_vars

\* The round has been paused by player 2 with a bomb ticking, has spent a
\* frame paused with a key of pad 0 down, and has just resumed.
C17_ResumedSeen ==
    /\ screen = S_GAME
    /\ pausePad = "pad1"
    /\ pad1 = {"START"}
    /\ pad0 = {"A"}
    /\ p1.bombList[0].ttl > 0
    /\ winner = WINNER_NA

\* The round is paused by player 1 and a frame has passed in the pause.
C17_PausedFrameSeen ==
    /\ screen = S_PAUSE
    /\ pausePad = "pad0"
    /\ pad0 = {"A"}
    /\ p1.bombList[0].ttl > 0

(***************************************************************************)
(* C18                                                                     *)
(***************************************************************************)
\* The pad of player n in the frame just handled
NextPad(n) == IF n = 1 THEN pad0' ELSE pad1'

\* C18: a bomb is placed with ttl BOMB_TTL; no frame without a tick changes
\* its ttl; a tick at which it has more than one tick left and is not
\* reached by an explosion takes one off and leaves it a bomb; the tick at
\* which it has one left frees its slot, explodes it with its owner's
\* range, makes its element the explosion center with a full flame timer
\* and gives its owner a bomb back.  A bomb placed before the first tick
\* has BOMB_TTL minus the number of ticks left, so that nothing explodes
\* before the BOMB_TTL-th tick and the bomb does at that tick.
C18_FuseIsBombTtl ==
    [][ screen = S_GAME =>
          /\ \A n \in Players : \A i \in 0..(MAX_BOMBS - 1) :
               LET b  == CurPl(n).bombList[i]
                   b2 == NextPl(n).bombList[i]
                   m  == TILE_OFFSET_1(b.x, b.y)
               IN  /\ b.ttl = 0 /\ b2.ttl # 0 => b2.ttl = BOMB_TTL /\ "A" \in NextPad(n)
                   /\ b.ttl > 0 /\ ~TickDue => b2 = b
                   /\ b.ttl > 1 /\ TickDue /\ m \notin visited' =>
                        /\ b2.ttl = b.ttl - 1
                        /\ fTypeMap(gameFieldLow'[m]) \in Bombs
                        /\ \A k \in 1..Len(exploded') : At(exploded'[k].x, exploded'[k].y) # m
                   /\ b.ttl = 1 /\ TickDue =>
                        /\ b2.ttl = 0
                        /\ exploded'[1 + Cardinality({ o \in 1..(n - 1) : CurPl(o).bombList[0].ttl = 1 })]
                             = [x |-> b.x, y |-> b.y, range |-> CurPl(n).range]
                        /\ gameFieldLow'[m] = FIELD_EXPL_MID
                        /\ aniField'[m] = 4 /\ ttlField'[m] = EXPLOSION_ANIMATION
                        /\ "A" \notin NextPad(n) => NextPl(n).bombs = CurPl(n).bombs + 1
                   /\ b2.ttl > 0 => b2.ttl = BOMB_TTL - counter10Hz'
          /\ counter10Hz' < BOMB_TTL => exploded' = << >>
      ]_vars

\* Both players have placed a bomb before the first tick, in different
\* frames; at the BOMB_TTL-th tick both bombs have exploded, the slots are
\* free and each owner has its bomb back.
C18_ExplodedAtBombTtlSeen ==
    /\ counter10Hz = BOMB_TTL
    /\ exploded = << [x |-> 2, y |-> 4, range |-> 1], [x |-> 26, y |-> 24, range |-> 1] >>
    /\ p1.bombList[0].ttl = 0 /\ p2.bombList[0].ttl = 0
    /\ p1.bombs = 1 /\ p2.bombs = 1
    /\ Low(GS, At(2, 4)) = FIELD_EXPL_MID
    /\ Low(GS, At(26, 24)) = FIELD_EXPL_MID

\* One tick before, the bombs have one tick left.
C18_LastTickSeen ==
    /\ counter10Hz = BOMB_TTL - 1
    /\ p1.bombList[0].ttl = 1
    /\ p2.bombList[0].ttl = 1
    /\ FieldType(GS, At(2, 4)) = FTYPE_BOMB_P1

(***************************************************************************)
(* C19                                                                     *)
(***************************************************************************)
\* Pad values with the action key down
ActionPads == { {"A"}, {"A", "RIGHT"}, {"A", "START"} }

\* The field element under the center of player pl
CenterOf(pl) == TILE_OFFSET_1(TileOf(pl.x + P_MID_X), TileOf(pl.y + P_MID_Y))

\* C19: for a player without an available bomb, or whose center lies on a
\* field element that is not empty, the bomb drop with the action key down
\* changes nothing: not the bombs counter, no bomb slot, not lastBombIdx,
\* not the field element, nor anything else.  The drop is applied to the
\* player as it is and with no bomb left, on the element as it is and with
\* a power-up or a flame on it.
C19_NoDropWhenBlocked ==
    \A n \in Players :
       LET pl == CurPl(n)
       IN  \A b \in {pl.bombs, 0} : \A tile \in {Low(GS, CenterOf(pl)), FIELD_PU_SPEED, FIELD_EXPL_MID} :
              LET s == [SetPl(GS, n, [pl EXCEPT !.bombs = b])
                          EXCEPT !.low = IF CenterOf(pl) \in DOMAIN @
                                         THEN [@ EXCEPT ![CenterOf(pl)] = tile] ELSE @]
              IN  (b = 0 \/ FieldType(s, CenterOf(pl)) # FTYPE_EMPTY) =>
                     \A pad \in ActionPads :
                        dropBomb(s, pad, n) = s

\* Player 2 has pressed the action key while standing on its only bomb,
\* with no bomb left, and nothing was placed.
C19_BlockedDropSeen ==
    /\ pad1 = {"A"}
    /\ p2.bombs = 0
    /\ p2.maxBombs = 1
    /\ FieldType(GS, CenterOf(p2)) \in Bombs
    /\ Cardinality(LiveBombs(p2)) = 1
    /\ p2.lastBombIdx = 0

(***************************************************************************)
(* C20                                                                     *)
(***************************************************************************)
\* Player pl is as initializeGame leaves a player at (px, py)
FreshPlayer(pl, px, py) ==
    /\ \A i \in 0..(MAX_BOMBS - 1) : pl.bombList[i].ttl = 0
    /\ pl.bombs = 1 /\ pl.maxBombs = 1 /\ pl.range = 1
    /\ pl.running = 0
    /\ pl.lastBombIdx = INVALID_LAST_BOMB_IDX
    /\ pl.x = px /\ pl.y = py

\* State t is the start of a round
FreshRound(t) ==
    /\ FreshPlayer(t.p1, 2 * 8, 4 * 8)
    /\ FreshPlayer(t.p2, 26 * 8, 24 * 8)
    /\ \A m \in FieldElems :
         /\ t.ani[m] = 0 /\ t.ttl[m] = 0
         /\ t.low[m] \in {FIELD_EMPTY, FIELD_BRICKED}
         /\ t.high[m] = TILE_ATTR(0, 0, 1, 3)
    /\ \A m \in StartCells : t.low[m] = FIELD_EMPTY
    /\ t.winner = WINNER_NA
    /\ t.gameOver = t.maxTime

\* C20: the frame of the options screen that starts a round, whatever the
\* state a finished or an abandoned round has left behind, yields the
\* start of a round: every bomb slot of both players free, every tile
\* animation frame and tile timer 0, each player with bombs, maxBombs and
\* range 1, no speed boost, no last placed bomb and at its start position,
\* winner none and the remaining time maxTime, with a full frame counter
\* and a full second ahead.
C20_RoundStartsFresh ==
    [][ screen = S_OPTIONS /\ screen' = S_GAME =>
          /\ FreshRound(GS)'
          /\ framesUntil10Hz' = FP10HZ
          /\ untilSecond' = 10
      ]_vars

\* A round has been started after one was abandoned before its time was
\* up: nothing of the old round is left but the position of the bomb in
\* the free slot 0 of player 1.
C20_RestartAfterAbandonSeen ==
    /\ screen = S_GAME
    /\ FreshRound(GS)
    /\ counter10Hz < 10 * DEF_MAX_TIME
    /\ p1.bombList[0].x = 6 /\ p1.bombList[0].y = 8
    /\ framesUntil10Hz = FP10HZ

\* A round has been started after one was finished.
C20_RestartAfterWinnerSeen ==
    /\ screen = S_GAME
    /\ FreshRound(GS)
    /\ counter10Hz >= 10 * DEF_MAX_TIME
    /\ framesUntil10Hz = FP10HZ

(***************************************************************************)
(* C21                                                                     *)
(***************************************************************************)
\* The indexes of gameFieldLow at which a field element may be addressed:
\* even column and row, the four tiles of the element inside the array
GridCells ==
    { m \in 1..(32 * 28 - 1 - 33) : ((m - 1) % 32) % 2 = 0 /\ ((m - 1) \div 32) % 2 = 0 }

\* The indexes of gameFieldLow that canEnter reads when player pl steps by
\* (dx, dy): for the x movement the leading column at the upper row and,
\* when that can be entered, at the lower row; then, with the x the player
\* has after the x movement, the leading row at the left column and, when
\* that can be entered, at the right column
ProbedBy(pl, dx, dy) ==
    LET cx == LeadCol(pl, dx)
        px == [pl EXCEPT !.x = moveX(GS, pl, dx)]
        ry == LeadRow(px, dy)
    IN  (IF dx = 0 THEN {}
         ELSE { TILE_OFFSET_1(cx, TileOf(pl.y + P_TOP)) }
                \cup (IF canEnter(GS, pl, cx, TileOf(pl.y + P_TOP))
                      THEN { TILE_OFFSET_1(cx, TileOf(pl.y + P_BOTTOM)) } ELSE {}))
        \cup
        (IF dy = 0 THEN {}
         ELSE { TILE_OFFSET_1(TileOf(px.x + P_LEFT), ry) }
                \cup (IF canEnter(GS, px, TileOf(px.x + P_LEFT), ry)
                      THEN { TILE_OFFSET_1(TileOf(px.x + P_RIGHT), ry) } ELSE {}))

\* C21: in an arena bordered by solid tiles, every index handleExplodedField
\* is called on, with the largest range too, is the upper left tile of an
\* element with even column and row whose four tiles lie in the grid
\* arrays; so are the elements under the four corners of a player, the
\* ones probed before a step in any direction and the one a bomb is placed
\* on, which is a field element; the positions of the bombs are even; a
\* valid lastBombIdx, the slot a bomb is placed in and the slots in the
\* chain are in 0..MAX_BOMBS-1, and the chain holds at most 2*MAX_BOMBS
\* entries.
C21_IndexesInRange ==
    /\ visited \subseteq GridCells
    /\ \A k \in 1..Len(exploded) :
         /\ exploded[k].x % 2 = 0 /\ exploded[k].y % 2 = 0
         /\ At(exploded[k].x, exploded[k].y) \in FieldElems
    /\ \A n \in Players :
         /\ \A o \in CornerOffsets : CornerOf(CurPl(n), o) \in GridCells
         /\ \A dx \in {-1, 1} : \A dy \in {-1, 1} : ProbedBy(CurPl(n), dx, dy) \subseteq GridCells
         /\ CenterOf(CurPl(n)) \in FieldElems
         /\ CurPl(n).lastBombIdx \in (0..(MAX_BOMBS - 1)) \cup {INVALID_LAST_BOMB_IDX}
         /\ CurPl(n).bombs # 0 => \E i \in 0..(MAX_BOMBS - 1) : CurPl(n).bombList[i].ttl = 0
         /\ \A i \in LiveBombs(CurPl(n)) :
              /\ CurPl(n).bombList[i].x % 2 = 0 /\ CurPl(n).bombList[i].y % 2 = 0
              /\ At(CurPl(n).bombList[i].x, CurPl(n).bombList[i].y) \in FieldElems
    /\ bombChainCount <= 2 * MAX_BOMBS
    /\ \A i \in 0..(bombChainCount - 1) : bombChain[i].idx \in 0..(MAX_BOMBS - 1)

\* A bomb of range 9 at the lower edge has exploded: the pass down was
\* stopped by the border, the pass to the left ran into it after six
\* elements, the one to the right after six, player 1 has walked into
\* the upper left corner and player 2 along the lower border, which keeps
\* it from walking down.
C21_BorderReachedSeen ==
    /\ exploded = << [x |-> 14, y |-> 24, range |-> MAX_RANGE] >>
    /\ {At(0, 24), At(28, 24), At(14, 26), At(14, 6)} \subseteq visited
    /\ p1.x < 2 * 8 /\ p1.y < 4 * 8
    /\ p2.x > 26 * 8 /\ p2.y = 24 * 8 /\ pad1 = {"RIGHT", "DOWN"}

(***************************************************************************)
(* C22                                                                     *)
(***************************************************************************)
\* Explosion a lies in the row or the column of the field element (x, y),
\* not on it and no more than its range away
InReachOf(a, x, y) ==
    \/ a.y = y /\ a.x # x /\ a.x - x <= 2 * a.range /\ x - a.x <= 2 * a.range
    \/ a.x = x /\ a.y # y /\ a.y - y <= 2 * a.range /\ y - a.y <= 2 * a.range

\* C22 as stated: the range recorded for a triggered bomb is the range of
\* an explosion of the tick that reached the bomb.
C22_ChainStoresAttackerRange ==
    [][ TickDue =>
          \A i \in 0..(bombChainCount' - 1) :
             LET e == bombChain'[i]
                 b == CurPl(e.owner).bombList[e.idx]
             IN  \E k \in 1..Len(exploded') :
                    InReachOf(exploded'[k], b.x, b.y) /\ e.range = exploded'[k].range ]_vars

\* C22 as amended: the record queued for a triggered bomb holds the range
\* the owner of the triggered bomb has at the time of the trigger, whatever
\* the range of the explosion that reached it and whatever the owner's
\* range was at the placement, and the slot of the bomb, which is freed;
\* the records of the tick are exploded after the bombs that timed out,
\* in the order they were queued, each at the bomb's position and with
\* the recorded range.
C22_ChainStoresOwnerRange ==
    [][ TickDue =>
          \A i \in 0..(bombChainCount' - 1) :
             LET e == bombChain'[i]
                 b == CurPl(e.owner).bombList[e.idx]
             IN  /\ b.ttl > 0
                 /\ NextPl(e.owner).bombList[e.idx].ttl \in {0, BOMB_TTL}
                 /\ e.range = CurPl(e.owner).range
                 /\ Len(exploded') >= bombChainCount'
                 /\ exploded'[Len(exploded') - bombChainCount' + i + 1]
                      = [x |-> b.x, y |-> b.y, range |-> e.range] ]_vars

\* Player 1 placed its bomb with range 2 and has picked up a range
\* power-up since; player 2's bomb of range 2 has triggered it, and it was
\* queued and exploded with range 3.
C22_OwnerRangeSeen ==
    /\ bombChainCount = 1
    /\ bombChain[0] = [range |-> 3, owner |-> 1, idx |-> 0]
    /\ p1.range = 3
    /\ exploded = << [x |-> 6, y |-> 4, range |-> 2], [x |-> 6, y |-> 8, range |-> 3] >>
    /\ At(6, 8) \in visited

(***************************************************************************)
(* C23                                                                     *)
(***************************************************************************)
\* C23: bombChainCount never exceeds the 2*MAX_BOMBS entries of bombChain;
\* a frame without a tick leaves it alone; a tick starts the chain anew:
\* after it bombChainCount is at most the number of bombs that were live
\* before it, as many as explosions of the tick that were not due to the
\* timer of the bomb, 0 when nothing exploded whatever was left of an
\* earlier tick, and the entries name different slots, so that each entry
\* was written at an index below 2*MAX_BOMBS.
C23_ChainFitsQueue ==
    [][ screen = S_GAME =>
          /\ bombChainCount <= 2 * MAX_BOMBS
          /\ ~TickDue => bombChainCount' = bombChainCount
          /\ TickDue =>
               /\ bombChainCount' <= Cardinality(LiveBombs(p1)) + Cardinality(LiveBombs(p2))
               /\ bombChainCount' <= 2 * MAX_BOMBS
               /\ bombChainCount' <= Len(exploded')
               /\ Len(exploded') > 0 => bombChainCount' < Len(exploded')
               /\ \A i, j \in 0..(bombChainCount' - 1) :
                    i # j => <<bombChain'[i].owner, bombChain'[i].idx>>
                               # <<bombChain'[j].owner, bombChain'[j].idx>>
      ]_vars

\* All 18 bombs have gone off in one tick: one by its timer, 17 through
\* the chain, every slot of both players among them.
C23_FullChainSeen ==
    /\ bombChainCount = 2 * MAX_BOMBS - 1
    /\ Len(exploded) = 2 * MAX_BOMBS
    /\ \A n \in Players : \A i \in 0..(MAX_BOMBS - 1) :
         /\ CurPl(n).bombList[i].ttl = 0
         /\ \/ \E k \in 0..(bombChainCount - 1) : bombChain[k].owner = n /\ bombChain[k].idx = i
            \/ n = 1 /\ i = 0
    /\ p1.bombs = MAX_BOMBS /\ p2.bombs = MAX_BOMBS

\* The tick after the full chain has emptied the chain.
C23_ChainEmptiedSeen ==
    /\ bombChainCount = 0
    /\ Len(exploded) = 0
    /\ p1.bombs = MAX_BOMBS /\ p2.bombs >= MAX_BOMBS - 1
    /\ \E m \in FieldElems : FieldType(GS, m) = FTYPE_FLAME

(***************************************************************************)
(* C24                                                                     *)
(***************************************************************************)
\* The slot <<player, index>> of the live bomb on the field element of
\* explosion a
SlotAt(a) ==
    CHOOSE c \in Players \X (0..(MAX_BOMBS - 1)) :
       /\ CurPl(c[1]).bombList[c[2]].ttl > 0
       /\ CurPl(c[1]).bombList[c[2]].x = a.x
       /\ CurPl(c[1]).bombList[c[2]].y = a.y

\* C24: the explosions of a tick are first those of the bombs whose timer
\* ran out, player 1's in the order of the slots and then player 2's, and
\* only then those of the bombs in the chain, one for every entry, in the
\* order of the entries, whether the entry was queued by a bomb that timed
\* out or by a bomb of the chain; every bomb that is gone after the tick
\* has exploded in it.
C24_ChainAfterBothScans ==
    [][ screen = S_GAME /\ TickDue =>
          LET L == Len(exploded')
              T == Len(exploded') - bombChainCount'
          IN  /\ T >= 0
              /\ \A k \in 1..T :
                   /\ CurPl(SlotAt(exploded'[k])[1]).bombList[SlotAt(exploded'[k])[2]].ttl = 1
                   /\ \A i \in 0..(bombChainCount' - 1) :
                        <<bombChain'[i].owner, bombChain'[i].idx>> # SlotAt(exploded'[k])
                   /\ \A l \in 1..(k - 1) :
                        \/ SlotAt(exploded'[l])[1] < SlotAt(exploded'[k])[1]
                        \/ /\ SlotAt(exploded'[l])[1] = SlotAt(exploded'[k])[1]
                           /\ SlotAt(exploded'[l])[2] < SlotAt(exploded'[k])[2]
              /\ \A i \in 0..(bombChainCount' - 1) :
                   SlotAt(exploded'[T + i + 1]) = <<bombChain'[i].owner, bombChain'[i].idx>>
              /\ \A n \in Players : \A i \in DetonatedSlots(n) :
                   \E k \in 1..L : SlotAt(exploded'[k]) = <<n, i>>
      ]_vars

\* A bomb of player 1 and one of player 2 that lies apart have timed out
\* in the same tick and have exploded first, in this order, although the
\* first one had queued its neighbour before; the 16 bombs of the chain
\* followed, each triggered by the one before it.
C24_ChainOfChainSeen ==
    /\ Len(exploded) = 2 * MAX_BOMBS
    /\ bombChainCount = 2 * MAX_BOMBS - 2
    /\ exploded[1] = [x |-> 2, y |-> 4, range |-> 1]
    /\ exploded[2] = [x |-> 22, y |-> 8, range |-> 1]
    /\ exploded[3] = [x |-> 4, y |-> 4, range |-> 1]
    /\ exploded[4] = [x |-> 6, y |-> 4, range |-> 1]
    /\ exploded[2 * MAX_BOMBS] = [x |-> 26, y |-> 12, range |-> 1]

(***************************************************************************)
(* C25                                                                     *)
(***************************************************************************)
\* The state the players are handled in: framesUntil10Hz is counted down,
\* and when it has reached 0 it is reloaded and the 10Hz block has run
AfterTick(rnd) ==
    LET f1 == (framesUntil10Hz + 255) % 256
    IN  IF f1 = 0 THEN tick10Hz([GS EXCEPT !.framesUntil10Hz = FP10HZ], rnd)
        ELSE [GS EXCEPT !.framesUntil10Hz = f1]

\* Player n has placed a bomb in slot i in this frame: only a placement
\* stores BOMB_TTL, and a tick leaves no slot at BOMB_TTL.
PlacedIn(n, i) ==
    /\ NextPl(n).bombList[i].ttl = BOMB_TTL
    /\ TickDue \/ CurPl(n).bombList[i].ttl # BOMB_TTL

\* C25: a successful placement uses the lowest-index free slot (ttl = 0
\* when the player is handled) of the player's bomb list, stores the
\* position of the center cell in it with ttl BOMB_TTL, animation frame 0
\* and frame timer BOMB_ANIMATION, sets lastBombIdx to that slot and
\* changes no other slot.
C25_PlacementUsesFirstFreeSlot ==
    [][ screen = S_GAME =>
          \A n \in Players : \A i \in 0..(MAX_BOMBS - 1) :
             PlacedIn(n, i) =>
               /\ "A" \in (IF n = 1 THEN pad0' ELSE pad1')
               /\ NextPl(n).bombList[i] =
                     [ x |-> TileOf(CurPl(n).x + P_MID_X),
                       y |-> TileOf(CurPl(n).y + P_MID_Y),
                       ttl |-> BOMB_TTL, curFrame |-> 0, ttlFrame |-> BOMB_ANIMATION ]
               /\ NextPl(n).lastBombIdx = i
               /\ \A j \in 0..(MAX_BOMBS - 1) : j < i => NextPl(n).bombList[j].ttl # 0
               /\ \A j \in 0..(MAX_BOMBS - 1) : j # i => ~PlacedIn(n, j)
               /\ \E rnd \in [ DiceElems(GS) -> Draws ] :
                    \E t \in { Pl(AfterTick(rnd), n) } :
                       /\ t.bombList[i].ttl = 0
                       /\ \A j \in 0..(MAX_BOMBS - 1) :
                            /\ j < i => t.bombList[j].ttl # 0
                            /\ j # i => NextPl(n).bombList[j] = t.bombList[j]
                       /\ NextPl(n).bombs = t.bombs - 1
      ]_vars

\* Player 2 has just placed a bomb in slot 1, slot 0 holding a live bomb.
C25_SecondSlotSeen ==
    /\ pad1 = {"A"}
    /\ p2.lastBombIdx = 1
    /\ p2.bombList[1].ttl = BOMB_TTL
    /\ p2.bombList[0].ttl \in 1..(BOMB_TTL - 1)
    /\ \A j \in 2..(MAX_BOMBS - 1) : p2.bombList[j].ttl = 0

\* Player 2 has just placed a bomb in slot 0, which an explosion had
\* freed, while the later slot 1 still holds a live bomb.
C25_FreedSlotReusedSeen ==
    /\ pad1 = {"A"}
    /\ p2.lastBombIdx = 0
    /\ p2.bombList[0].ttl = BOMB_TTL
    /\ p2.bombList[1].ttl \in 1..(BOMB_TTL - 1)


(***************************************************************************)
(* C26                                                                     *)
(***************************************************************************)
\* The field elements under the corners of the bounding box of pl
CornerCells(pl) == { CornerOf(pl, o) : o \in CornerOffsets }

\* The field element of the bomb pl placed last
LastBombCell(pl) ==
    TILE_OFFSET_1(pl.bombList[pl.lastBombIdx].x, pl.bombList[pl.lastBombIdx].y)

\* C26: after the movement steps of a frame a player keeps the index of
\* its last bomb only while a corner of its bounding box is on that bomb's
\* field element, and loses it only when none is; a field element the
\* player's corners enter holds no bomb, so that the element of a bomb the
\* player has left blocks it like any other bomb; and the index becomes
\* valid or changes to another slot only by the placement of a new bomb.
C26_ExemptionEndsOffTheBomb ==
    [][ screen = S_GAME =>
          \A n \in Players :
             /\ NextPl(n).lastBombIdx # INVALID_LAST_BOMB_IDX =>
                  LastBombCell(NextPl(n)) \in CornerCells(NextPl(n))
             /\ ( /\ CurPl(n).lastBombIdx # INVALID_LAST_BOMB_IDX
                  /\ NextPl(n).lastBombIdx = INVALID_LAST_BOMB_IDX ) =>
                  /\ LastBombCell(CurPl(n)) \notin CornerCells(NextPl(n))
                  /\ LastBombCell(CurPl(n)) \in CornerCells(CurPl(n))
             /\ \A m \in CornerCells(NextPl(n)) \ CornerCells(CurPl(n)) :
                  fTypeMap(gameFieldLow'[m]) \notin Bombs
             /\ ( /\ NextPl(n).lastBombIdx # INVALID_LAST_BOMB_IDX
                  /\ NextPl(n).lastBombIdx # CurPl(n).lastBombIdx ) =>
                  PlacedIn(n, NextPl(n).lastBombIdx)
      ]_vars

\* Player 1 has stepped off its bomb at (4,4) to the right and lost the
\* index; the key to the left is down and the bomb holds the player back.
C26_BlockedByOwnBombSeen ==
    /\ screen = S_GAME
    /\ p1.lastBombIdx = INVALID_LAST_BOMB_IDX
    /\ p1.bombList[0].ttl > 0 /\ p1.bombList[0].x = 4
    /\ pad0 = {"LEFT"}
    /\ p1.x = 44
    /\ p1.moving = 1
    /\ fTypeMap(gameFieldLow[At(4, 4)]) \in Bombs

\* Player 1 has stepped off its bomb at (2,4) downwards, has placed a new
\* bomb at (2,6) and holds the index of the new one.
C26_NewBombExemptSeen ==
    /\ p1.lastBombIdx = 1
    /\ p1.bombList[0].ttl > 0 /\ p1.bombList[0].x = 2
    /\ p1.bombList[1].ttl > 0 /\ p1.bombList[1].y = 6
    /\ At(2, 4) \notin CornerCells(p1)
    /\ pad0 = {"UP"}


(***************************************************************************)
(* C27                                                                     *)
(***************************************************************************)
\* A bomb has been placed on field element m in this frame
PlacedOn(m) ==
    \E n \in Players : \E i \in 0..(MAX_BOMBS - 1) :
       /\ PlacedIn(n, i)
       /\ TILE_OFFSET_1(NextPl(n).bombList[i].x, NextPl(n).bombList[i].y) = m

\* Field element m is the position of a bomb that exploded in this frame
ExplodedAt(m) ==
    \E k \in 1..Len(exploded') : TILE_OFFSET_1(exploded'[k].x, exploded'[k].y) = m

\* C27: a field element is in decay exactly while its frame count is not
\* 0, and its timer is EXPLOSION_ANIMATION then; it enters the decay only
\* in a tick, by an explosion, with frame count 4; every later tick takes
\* one off the frame count: while the count stays above 0 the tile
\* advances by one frame (a flame to the next flame tile, an ignited
\* bricked wall toggling between its two frames), and the tick that takes
\* the count to 0, the fourth after the ignition, finalizes the element:
\* a flame becomes empty, an ignited bricked wall a power-up or empty, the
\* timer and the frame count are 0 and the attribute is reset; frames
\* without a tick leave the element as it is.
C27_DecayTakesFourTicks ==
    [][ screen = S_GAME =>
          \A m \in FieldElems :
             /\ (ttlField[m] # 0) = (aniField[m] # 0)
             /\ ttlField[m] # 0 =>
                  /\ ttlField[m] = EXPLOSION_ANIMATION
                  /\ aniField[m] \in 1..4
                  /\ FieldType(GS, m) \in {FTYPE_FLAME, FTYPE_BRICKED}
             /\ (ttlField[m] = 0 /\ ttlField'[m] # 0) =>
                  /\ TickDue
                  /\ aniField'[m] = 4
                  /\ m \in visited' \/ ExplodedAt(m)
             /\ (ttlField[m] # 0 /\ ~TickDue) =>
                  /\ aniField'[m] = aniField[m]
                  /\ ttlField'[m] = ttlField[m]
                  /\ gameFieldLow'[m] = gameFieldLow[m]
                  /\ gameFieldHigh'[m] = gameFieldHigh[m]
             /\ (ttlField[m] # 0 /\ TickDue /\ aniField[m] > 1) =>
                  /\ aniField'[m] = aniField[m] - 1
                  /\ ttlField'[m] = EXPLOSION_ANIMATION
                  /\ FieldType(GS, m) = FTYPE_BRICKED =>
                       gameFieldLow'[m] = IF gameFieldLow[m] = FIELD_BRICKED + 4
                                          THEN FIELD_BRICKED + 2 ELSE FIELD_BRICKED + 4
                  /\ (FieldType(GS, m) = FTYPE_FLAME /\ m \notin visited') =>
                       /\ gameFieldLow'[m] = gameFieldLow[m] + 2
                       /\ gameFieldHigh'[m] = gameFieldHigh[m]
             /\ (ttlField[m] # 0 /\ TickDue /\ aniField[m] = 1
                   /\ m \notin visited' /\ ~PlacedOn(m)) =>
                  /\ aniField'[m] = 0
                  /\ ttlField'[m] = 0
                  /\ gameFieldHigh'[m] = TILE_ATTR(0, 0, 1, 3)
                  /\ FieldType(GS, m) = FTYPE_FLAME => gameFieldLow'[m] = FIELD_EMPTY
                  /\ FieldType(GS, m) = FTYPE_BRICKED =>
                       gameFieldLow'[m] \in {FIELD_EMPTY, FIELD_PU_BOMB, FIELD_PU_RANGE,
                                             FIELD_PU_SPEED}
      ]_vars

\* The tick of the explosion: the bomb at (6,8) has gone off, its element
\* and the empty ones around it are flames and the bricked wall at (4,8)
\* is ignited, all with frame count 4.
C27_IgnitedSeen ==
    /\ counter10Hz = 10 * DEF_MAX_TIME - 5
    /\ exploded = << [x |-> 6, y |-> 8, range |-> 1] >>
    /\ gameFieldLow[At(4, 8)] = FIELD_BRICKED + 2
    /\ gameFieldLow[At(6, 8)] = FIELD_EXPL_MID
    /\ \A m \in {At(4, 8), At(6, 8), At(8, 8), At(6, 10)} :
         aniField[m] = 4 /\ ttlField[m] = EXPLOSION_ANIMATION

\* The fourth tick after that explosion: the flames are empty and the
\* bricked wall has become a power-up, all with timer and frame count 0.
C27_FinalizedSeen ==
    /\ counter10Hz = 10 * DEF_MAX_TIME - 1
    /\ framesUntil10Hz = FP10HZ
    /\ p1.bombList[1].ttl > 0 /\ p1.bombList[0].ttl = 0 /\ p1.bombs = 1
    /\ gameFieldLow[At(4, 8)] = FIELD_PU_RANGE
    /\ \A m \in {At(6, 6), At(6, 8), At(8, 8), At(6, 10)} : gameFieldLow[m] = FIELD_EMPTY
    /\ \A m \in {At(6, 6), At(4, 8), At(6, 8), At(8, 8), At(6, 10)} :
         /\ aniField[m] = 0 /\ ttlField[m] = 0
         /\ gameFieldHigh[m] = TILE_ATTR(0, 0, 1, 3)

\* The third tick after that explosion: the frame count is down to 1 and
\* the elements still burn.
C27_LastFrameSeen ==
    /\ counter10Hz = 10 * DEF_MAX_TIME - 2
    /\ p1.bombList[1].ttl > 0 /\ p1.bombList[0].ttl = 0 /\ p1.bombs = 1
    /\ gameFieldLow[At(4, 8)] = FIELD_BRICKED + 4
    /\ gameFieldLow[At(6, 8)] = FIELD_EXPL_MID + 6
    /\ \A m \in {At(4, 8), At(6, 8), At(8, 8), At(6, 10)} :
         aniField[m] = 1 /\ ttlField[m] = EXPLOSION_ANIMATION


(***************************************************************************)
(* C28                                                                     *)
(***************************************************************************)
\* The flames of the field that still burn after the decay of a tick
Burning == { m \in FieldElems : FieldType(GS, m) = FTYPE_FLAME /\ aniField[m] > 1 }

\* C28: an explosion that reaches a field element that is a flame leaves
\* the frame count and the timer of the element as they are: the call of
\* handleExplodedField changes neither (nor any other element's), and a
\* flame crossed in a tick has, after the tick, the frame count the decay
\* of that tick alone gave it, the full timer of one frame and the middle
\* tile of that frame count, so that it is finalized by the tick its
\* ignition fixed.
C28_CrossedFlameKeepsTimer ==
    [][ screen = S_GAME =>
          /\ \A m \in FieldElems :
               FieldType(GS, m) = FTYPE_FLAME =>
                  \E r \in { handleExplodedField(GS, 0, 0, m, 1, TILE_ATTR(0, 1, 1, 3),
                                                 FIELD_EXPL_PART_X, FIELD_EXPL_END_X) } :
                     /\ r.s.ani = aniField
                     /\ r.s.ttl = ttlField
                     /\ r.s.low[m] = FIELD_EXPL_MID + 2 * (4 - aniField[m])
          /\ TickDue =>
               \A m \in Burning \cap visited' :
                  /\ aniField'[m] = aniField[m] - 1
                  /\ ttlField'[m] = EXPLOSION_ANIMATION
                  /\ gameFieldLow'[m] = FIELD_EXPL_MID + 2 * (4 - aniField'[m])
                  /\ gameFieldHigh'[m] = TILE_ATTR(0, 0, 1, 3)
          /\ TickDue =>
               \A m \in FieldElems :
                  (FieldType(GS, m) = FTYPE_FLAME /\ aniField[m] = 1 /\ m \notin visited'
                     /\ ~PlacedOn(m)) =>
                     gameFieldLow'[m] = FIELD_EMPTY /\ aniField'[m] = 0 /\ ttlField'[m] = 0
      ]_vars

\* Player 2's bomb at (2,8) has gone off two ticks after player 1's at
\* (6,4): the flame at (6,8) was crossed on the second step and is two
\* frames from its end as the other flames of the first explosion, while
\* the flames of the second one have their full frame count.
C28_CrossedSeen ==
    /\ exploded = << [x |-> 2, y |-> 8, range |-> 3] >>
    /\ {At(2, 4), At(6, 8)} \subseteq visited
    /\ aniField[At(6, 8)] = 2 /\ ttlField[At(6, 8)] = EXPLOSION_ANIMATION
    /\ gameFieldLow[At(6, 8)] = FIELD_EXPL_MID + 4
    /\ aniField[At(2, 4)] = 2
    /\ aniField[At(6, 6)] = 2 /\ gameFieldLow[At(6, 6)] # FIELD_EXPL_MID + 4
    /\ aniField[At(4, 8)] = 4 /\ aniField[At(2, 8)] = 4

\* Two ticks later the crossed flames are empty with the first explosion,
\* while the second explosion still burns.
C28_CrossedFinalizedSeen ==
    /\ gameFieldLow[At(6, 8)] = FIELD_EMPTY /\ aniField[At(6, 8)] = 0 /\ ttlField[At(6, 8)] = 0
    /\ gameFieldLow[At(2, 4)] = FIELD_EMPTY /\ aniField[At(2, 4)] = 0
    /\ gameFieldLow[At(6, 6)] = FIELD_EMPTY
    /\ aniField[At(4, 8)] = 2 /\ aniField[At(2, 8)] = 2 /\ aniField[At(8, 8)] = 2
    /\ p1.bombList[0].ttl = 0 /\ p2.bombList[0].ttl = 0


(***************************************************************************)
(* C29                                                                     *)
(***************************************************************************)
\* The only explosion of this tick has walked the first k steps of
\* direction d over flames: every element on the way burns after the tick
\* (an element that was a bomb, a wall or a power-up does not).
WalkedOver(e, d, k) ==
    \A i \in 1..k :
       /\ Step(e.x, e.y, d, i) \in FieldElems
       /\ fTypeMap(gameFieldLow'[Step(e.x, e.y, d, i)]) = FTYPE_FLAME

\* C29: a flame does not stop an explosion: handleExplodedField returns
\* true for it, and when the explosion of a tick meets a burning flame at
\* step k below its range, the element at step k + 1 of that direction is
\* handled too, by its own rule: an empty one (or a flame the decay of
\* the tick has just cleared) is a flame with frame count 4, a burning
\* flame stays one with its frame count, a bricked wall is ignited, and an
\* element outside the arena is left alone.
C29_FlameLetsExplosionPass ==
    [][ screen = S_GAME =>
          /\ \A m \in FieldElems :
               FieldType(GS, m) = FTYPE_FLAME =>
                  handleExplodedField(GS, 0, 0, m, 2, TILE_ATTR(0, 1, 1, 3),
                                      FIELD_EXPL_PART_X, FIELD_EXPL_END_X).cont
          /\ (TickDue /\ Len(exploded') = 1) =>
               \A d \in Dirs : \A k \in 1..(MAX_RANGE - 1) :
                  \E e \in { exploded'[1] } :
                     ( /\ k < e.range
                       /\ WalkedOver(e, d, k)
                       /\ Step(e.x, e.y, d, k) \in Burning ) =>
                       \E n \in { Step(e.x, e.y, d, k + 1) } :
                          /\ n \in visited'
                          /\ n \in FieldElems =>
                               /\ (FieldType(GS, n) = FTYPE_EMPTY
                                     \/ (FieldType(GS, n) = FTYPE_FLAME /\ aniField[n] = 1)) =>
                                    /\ fTypeMap(gameFieldLow'[n]) = FTYPE_FLAME
                                    /\ aniField'[n] = 4
                               /\ n \in Burning =>
                                    /\ fTypeMap(gameFieldLow'[n]) = FTYPE_FLAME
                                    /\ aniField'[n] = aniField[n] - 1
                               /\ (FieldType(GS, n) = FTYPE_BRICKED /\ aniField[n] = 0) =>
                                    /\ gameFieldLow'[n] = FIELD_BRICKED + 2
                                    /\ aniField'[n] = 4
      ]_vars

\* The explosion of the bomb at (2,8) with range 3 has met the flame at
\* (6,8) on its second step to the right and has gone on to (8,8), which
\* is the end of the flame now; upwards it has met the flame at (2,4) and
\* has gone on to the border above it.
C29_PassedFlameSeen ==
    /\ exploded = << [x |-> 2, y |-> 8, range |-> 3] >>
    /\ aniField[At(6, 8)] \in 1..3
    /\ gameFieldLow[At(6, 8)] = FIELD_EXPL_MID + 2 * (4 - aniField[At(6, 8)])
    /\ At(8, 8) \in visited
    /\ gameFieldLow[At(8, 8)] = FIELD_EXPL_END_X
    /\ aniField[At(8, 8)] = 4
    /\ aniField[At(2, 4)] \in 1..3
    /\ At(2, 2) \in visited
    /\ At(10, 8) \notin visited


(***************************************************************************)
(* C30                                                                     *)
(***************************************************************************)
\* The tile a bricked wall in its last frame turns into for draw d
DropTile(d) ==
    IF d % 256 <= dropRate255
    THEN CASE (d \div 256) % 8 \in 0..3 -> FIELD_PU_BOMB
           [] (d \div 256) % 8 \in 4..6 -> FIELD_PU_RANGE
           [] (d \div 256) % 8 = 7 -> FIELD_PU_SPEED
    ELSE FIELD_EMPTY

\* C30: dropRate255 is floor(dropRate * 255 / 100), and the decay that
\* finalizes an ignited bricked wall with draw d leaves a power-up exactly
\* when the low byte of d is <= dropRate255: the bomb power-up when bits
\* 8..10 of d are 0..3, the range power-up when they are 4..6, the speed
\* power-up when they are 7; otherwise the element is empty. This holds
\* for every combination of the bits the code reads, and in the decay loop
\* for every explored draw.
C30_DropByDraw ==
    /\ dropRate255 = (dropRate * 255) \div 100
    /\ \A k \in DiceElems(GS) :
         /\ \A d \in DrawValues :
              \E r \in { decayField(gameFieldLow[k], gameFieldHigh[k], aniField[k],
                                    ttlField[k], d, dropRate255) } :
                 /\ r.low = DropTile(d)
                 /\ r.ani = 0 /\ r.ttl = 0
                 /\ (fTypeMap(r.low) \in PowerUps) = (d % 256 <= dropRate255)
         /\ \A d \in Draws :
              Low(decayLoop(GS, 1, [j \in DiceElems(GS) |-> d]), k) = DropTile(d)

\* With the default drop rate (dropRate255 = 89) the wall at (4,8) has
\* burnt down to the bomb power-up: the draw had low byte 89 and 3 in bits
\* 8..10.
C30_BombDroppedSeen ==
    /\ dropRate = DEF_DROP_RATE
    /\ dropRate255 = 89
    /\ counter10Hz = 10 * DEF_MAX_TIME - 1
    /\ framesUntil10Hz = FP10HZ
    /\ gameFieldLow[At(4, 8)] = FIELD_PU_BOMB
    /\ aniField[At(4, 8)] = 0 /\ ttlField[At(4, 8)] = 0

\* With the default drop rate the wall at (4,8) has burnt down to an empty
\* element: the draw had a low byte above 89.
C30_NothingDroppedSeen ==
    /\ dropRate = DEF_DROP_RATE
    /\ counter10Hz = 10 * DEF_MAX_TIME - 1
    /\ framesUntil10Hz = FP10HZ
    /\ gameFieldLow[At(4, 8)] = FIELD_EMPTY
    /\ aniField[At(4, 8)] = 0 /\ ttlField[At(4, 8)] = 0
    /\ gameFieldLow[At(6, 8)] = FIELD_EMPTY

\* With drop rate 0 (dropRate255 = 0) the wall at (4,8) has burnt down to
\* the speed power-up: the draw had low byte 0 and 7 in bits 8..10.
C30_SpeedDroppedSeen ==
    /\ dropRate = 0
    /\ dropRate255 = 0
    /\ counter10Hz = 10 * DEF_MAX_TIME - 1
    /\ framesUntil10Hz = FP10HZ
    /\ gameFieldLow[At(4, 8)] = FIELD_PU_SPEED

\* The tick that finalizes the wall at (4,8) is due and the dice will be
\* rolled for it.
C30_DiceDueSeen ==
    /\ dropRate = DEF_DROP_RATE
    /\ DiceElems(GS) = {At(4, 8)}
    /\ gameFieldLow[At(4, 8)] = FIELD_BRICKED + 4


(***************************************************************************)
(* C31                                                                     *)
(***************************************************************************)
\* The pad of player n in the frame that ends in the next state
PadOf(n) == IF n = 1 THEN pad0' ELSE pad1'

\* The boost timer of player n when the players are handled: the tick of
\* the frame, if one is due, has taken one off
BoostLeft(n) ==
    IF TickDue /\ CurPl(n).running # 0 THEN CurPl(n).running - 1 ELSE CurPl(n).running

\* The number of passes of the movement loop for player n in this frame
Passes(n) == IF BoostLeft(n) # 0 THEN 2 ELSE 1

\* The field elements under the box of player n are empty before and
\* after the frame wherever up to k passes with the pad's deltas take it
FreeWay(n, k) ==
    \A i, j \in 0..k : \A o \in CornerOffsets :
       \E m \in { TILE_OFFSET_1(TileOf(CurPl(n).x + i * padDx(PadOf(n)) + o[1]),
                                TileOf(CurPl(n).y + j * padDy(PadOf(n)) + o[2])) } :
          /\ m \in FieldElems
          /\ gameFieldLow[m] = FIELD_EMPTY
          /\ gameFieldLow'[m] = FIELD_EMPTY

\* Player n has taken a speed power-up in this frame: an element under one
\* of its corners held one and is empty without an explosion
TookBoots(n) ==
    \E m \in CornerCells(NextPl(n)) \cap FieldElems :
       /\ gameFieldLow[m] = FIELD_PU_SPEED
       /\ gameFieldLow'[m] = FIELD_EMPTY
       /\ m \notin visited'

\* C31: in a frame of the game screen a player whose boost timer is not 0
\* when the players are handled moves by up to two passes of the pad's
\* deltas, two on a free way, and otherwise by one; the boost timer loses
\* one in every tick down to 0 and changes in no other frame, except that
\* taking a speed power-up sets it to BOOTS_TTL, whatever was left of it.
C31_BoostDoublesSteps ==
    [][ screen = S_GAME =>
          \A n \in Players :
             /\ \E k \in 0..Passes(n) : NextPl(n).x = CurPl(n).x + k * padDx(PadOf(n))
             /\ \E k \in 0..Passes(n) : NextPl(n).y = CurPl(n).y + k * padDy(PadOf(n))
             /\ FreeWay(n, Passes(n)) =>
                  /\ NextPl(n).x = CurPl(n).x + Passes(n) * padDx(PadOf(n))
                  /\ NextPl(n).y = CurPl(n).y + Passes(n) * padDy(PadOf(n))
             /\ NextPl(n).running = IF TookBoots(n) THEN BOOTS_TTL ELSE BoostLeft(n)
             /\ NextPl(n).running <= BOOTS_TTL
      ]_vars

\* Player 1 has taken the boots with its first step to the right and has
\* walked two pixels on a free way in the frame after it.
C31_TwoPixelsSeen ==
    /\ pad0 = {"RIGHT"}
    /\ p1.x = 2 * 8 + 3 + 1 + 2
    /\ p1.y = 4 * 8
    /\ p1.running = BOOTS_TTL
    /\ p1.range = 2
    /\ gameFieldLow[At(4, 4)] = FIELD_EMPTY
    /\ framesUntil10Hz = FP10HZ - 1

\* The boost timer of player 1 has run out in the second tick: the player
\* has walked down two pixels in each of the frames before it and one in
\* the frame of the tick.
C31_BoostRunOutSeen ==
    /\ pad0 = {"DOWN"}
    /\ p1.running = 0
    /\ gameFieldLow[At(4, 4)] = FIELD_PU_RANGE
    /\ p1.y = 4 * 8 + 2 * FP10HZ + 1
    /\ p1.x = 2 * 8 + 3
    /\ counter10Hz = 10 * DEF_MAX_TIME - TicksLeft + 2
    /\ framesUntil10Hz = FP10HZ

\* Player 1 has taken the boots with one tick of an earlier boost left:
\* the timer is BOOTS_TTL less the one tick since.
C31_BoostRestartedSeen ==
    /\ p1.running = BOOTS_TTL - 1
    /\ gameFieldLow[At(4, 4)] = FIELD_EMPTY
    /\ counter10Hz = 10 * DEF_MAX_TIME - TicksLeft + 2
    /\ p1.bombList[0].ttl = 0
    /\ p1.range = 2


(***************************************************************************)
(* C32                                                                     *)
(***************************************************************************)
\* The field elements a corner of player n lies on after the frame and no
\* corner of it lay on before
Entered(n) == (CornerCells(NextPl(n)) \ CornerCells(CurPl(n))) \cap FieldElems

\* The kinds of field elements no player walks onto
Walls == {FTYPE_BRICKED, FTYPE_SOLID}

\* After the frame every player on a flame has lost and no corner of a
\* player lies on a power-up: the checks ran on the grid the frame leaves
CheckedOnNewGrid ==
    /\ TouchesFlame(gameFieldLow', p1') => winner' \in {WINNER_P2, WINNER_DRAW}
    /\ TouchesFlame(gameFieldLow', p2') => winner' \in {WINNER_P1, WINNER_DRAW}
    /\ \A n \in Players : \A m \in CornerCells(NextPl(n)) \cap FieldElems :
          fTypeMap(gameFieldLow'[m]) \notin PowerUps

\* C32 as stated: in a frame with a tick the players are moved and their
\* bombs are placed before the timers advance and the bombs explode: a
\* player walks only onto elements that were free before the tick, a bomb
\* placed in the frame has been through the tick's bomb scan, so that no
\* bomb has the full BOMB_TTL after the frame, and the players are checked
\* against flames and power-ups on the grid the frame leaves.
C32_PlayersBeforeExplosions ==
    [][ screen = S_GAME /\ TickDue =>
          /\ \A n \in Players :
                /\ \A m \in Entered(n) : FieldType(GS, m) \notin Walls
                /\ \A i \in 0..(MAX_BOMBS - 1) : NextPl(n).bombList[i].ttl # BOMB_TTL
          /\ CheckedOnNewGrid ]_vars

\* C32 as amended: in a frame with a tick the timers advance and the bombs
\* explode before the players are moved and their bombs are placed: a
\* player walks only onto elements that are free after the tick, a bomb
\* placed in the frame has the full BOMB_TTL and the first animation frame
\* after it, lies on an element no explosion of the tick has reached and
\* may use a slot the tick has freed, a bomb with one tick less than
\* BOMB_TTL was placed in an earlier frame, and the players are checked
\* against flames and power-ups on the grid the frame leaves.
C32_ExplosionsBeforePlayers ==
    [][ screen = S_GAME /\ TickDue =>
          /\ \A n \in Players :
                /\ \A m \in Entered(n) : fTypeMap(gameFieldLow'[m]) \notin Walls
                /\ \A i \in 0..(MAX_BOMBS - 1) :
                      LET b == CurPl(n).bombList[i]
                          c == NextPl(n).bombList[i]
                      IN  /\ c.ttl = BOMB_TTL - 1 => b.ttl = BOMB_TTL
                          /\ c.ttl = BOMB_TTL =>
                               /\ c.ttlFrame = BOMB_ANIMATION
                               /\ c.curFrame = 0
                               /\ TILE_OFFSET_1(c.x, c.y) \notin visited'
                               /\ ~ExplodedAt(TILE_OFFSET_1(c.x, c.y))
                               /\ fTypeMap(gameFieldLow'[TILE_OFFSET_1(c.x, c.y)]) \in Bombs
                               /\ b.ttl # 0 => ExplodedAt(TILE_OFFSET_1(b.x, b.y))
          /\ CheckedOnNewGrid ]_vars

\* Player 1's bomb at (2,4) has exploded in the tick, and player 1 has
\* placed a bomb at (2,10) in the same frame, in the slot the explosion
\* freed: the new bomb has its full timer.
C32_FreedSlotUsedSeen ==
    /\ pad0 = {"A"}
    /\ Len(exploded) = 3
    /\ exploded[1] = [x |-> 2, y |-> 4, range |-> 1]
    /\ p1.bombList[0] = [ttl |-> BOMB_TTL, x |-> 2, y |-> 10, curFrame |-> 0,
                         ttlFrame |-> BOMB_ANIMATION]
    /\ p1.lastBombIdx = 0
    /\ gameFieldLow[At(2, 10)] = FIELD_BOMB_P1
    /\ At(2, 10) \notin visited

\* Player 2 has walked onto the element of the wall at (4,8) in the frame
\* of the tick that finalized the wall's decay.
C32_WalkedOntoDecayedSeen ==
    /\ pad1 = {"RIGHT"}
    /\ p2.x = 2 * 8 + 3 + 1
    /\ p2.y = 8 * 8
    /\ framesUntil10Hz = FP10HZ
    /\ counter10Hz = 10 * DEF_MAX_TIME - (2 + TicksLeft) + 4
    /\ gameFieldLow[At(4, 8)] = FIELD_EMPTY
    /\ aniField[At(4, 8)] = 0


(***************************************************************************)
(* C33                                                                     *)
(***************************************************************************)
\* The field element of the bomb in slot i of player pl
BombCell(pl, i) == TILE_OFFSET_1(pl.bombList[i].x, pl.bombList[i].y)

\* The field element under the center of player pl, where it drops bombs
CenterCell(pl) == TILE_OFFSET_1(TileOf(pl.x + P_MID_X), TileOf(pl.y + P_MID_Y))

\* C33: no two live bombs of a player lie on the same field element.
C33_OwnBombsApart ==
    \A n \in Players : \A i, j \in LiveBombs(CurPl(n)) :
       i # j => BombCell(CurPl(n), i) # BombCell(CurPl(n), j)

\* Player 1, with a bomb to spare, has pressed A standing on the bomb it
\* placed before: no second bomb was placed there.
C33_SecondDropRefusedSeen ==
    /\ pad0 = {"A"}
    /\ p1.bombs >= 1
    /\ \E i \in LiveBombs(p1) :
          /\ BombCell(p1, i) = CenterCell(p1)
          /\ p1.bombList[i].ttl < BOMB_TTL
          /\ \A j \in LiveBombs(p1) : j # i => BombCell(p1, j) # CenterCell(p1)

\* Player 1 has two live bombs, the second one placed after a walk.
C33_TwoBombsSeen ==
    /\ Cardinality(LiveBombs(p1)) = 2
    /\ p1.bombs = 0
    /\ p1.bombList[1].ttl = BOMB_TTL
    /\ BombCell(p1, 1) # BombCell(p1, 0)


(***************************************************************************)
(* C34                                                                     *)
(***************************************************************************)
\* C34: the bombs a player has left and its live bombs add up to its
\* maxBombs, which is at most MAX_BOMBS, so that a player with a bomb left
\* has a free slot in its bomb list.
C34_BombsAddUp ==
    \A n \in Players :
       /\ CurPl(n).bombs + Cardinality(LiveBombs(CurPl(n))) = CurPl(n).maxBombs
       /\ CurPl(n).maxBombs <= MAX_BOMBS
       /\ CurPl(n).bombs >= 1 =>
            \E i \in 0..(MAX_BOMBS - 1) : CurPl(n).bombList[i].ttl = 0

\* The nine bombs of player 1 have exploded in one tick, eight of them
\* chained: all were credited and player 1 has its MAX_BOMBS bombs again.
C34_ChainCreditedSeen ==
    /\ bombChainCount = MAX_BOMBS - 1
    /\ Len(exploded) = MAX_BOMBS
    /\ p1.maxBombs = MAX_BOMBS
    /\ p1.bombs = MAX_BOMBS
    /\ LiveBombs(p1) = {}

\* Player 2 has placed the first of its MAX_BOMBS bombs.
C34_BombSpentSeen ==
    /\ pad1 = {"A"}
    /\ p2.maxBombs = MAX_BOMBS
    /\ p2.bombs = MAX_BOMBS - 1
    /\ LiveBombs(p2) = {0}
    /\ p2.bombList[0].ttl = BOMB_TTL

\* All slots of player 2 hold a live bomb and it has no bomb left.
C34_AllSlotsLiveSeen ==
    /\ pad1 = {"A"}
    /\ p2.bombs = 0
    /\ Cardinality(LiveBombs(p2)) = MAX_BOMBS
    /\ framesUntil10Hz = FP10HZ - 1


(***************************************************************************)
(* C35                                                                     *)
(***************************************************************************)
\* The slots (owner, index) of the live bombs on field element m
BombsOn(m) ==
    { s \in Players \X (0..(MAX_BOMBS - 1)) :
        /\ CurPl(s[1]).bombList[s[2]].ttl > 0
        /\ BombCell(CurPl(s[1]), s[2]) = m }

\* The slots (owner, index) of all live bombs
AllLive ==
    { s \in Players \X (0..(MAX_BOMBS - 1)) : CurPl(s[1]).bombList[s[2]].ttl > 0 }

\* C35: the field elements that show a bomb, of either player, are the
\* elements the live bombs of the two bomb lists lie on, and no two live
\* bombs lie on the same element.
C35_BombTilesMatchBombs ==
    /\ { m \in FieldElems : FieldType(GS, m) \in Bombs }
          = { BombCell(CurPl(s[1]), s[2]) : s \in AllLive }
    /\ \A s, t \in AllLive :
          s # t => BombCell(CurPl(s[1]), s[2]) # BombCell(CurPl(t[1]), t[2])

\* The bombs of player 1 in the upper row were chained by the first one:
\* their elements burn and hold no live bomb, and the bomb player 2 has
\* placed at (6,8) in the same frame is the one live bomb of its element.
C35_ChainedBombsGoneSeen ==
    /\ Len(exploded) = MAX_BOMBS
    /\ \A k \in 1..MAX_BOMBS :
          FieldType(GS, At(2 * k, 4)) = FTYPE_FLAME /\ BombsOn(At(2 * k, 4)) = {}
    /\ FieldType(GS, At(26, 18)) \in Bombs
    /\ BombsOn(At(26, 18)) = { <<2, 0>> }

\* A bomb player 2 has just placed shows player 1's tile and is the one
\* live bomb of its element.
C35_NewBombOfP2Seen ==
    /\ pad1 = {"A"}
    /\ \E i \in LiveBombs(p2) :
          /\ p2.bombList[i].ttl = BOMB_TTL
          /\ gameFieldLow[BombCell(p2, i)] = FIELD_BOMB_P1
          /\ BombsOn(BombCell(p2, i)) = { <<2, i>> }


(***************************************************************************)
(* C36                                                                     *)
(***************************************************************************)
\* The field elements that are flames
Flames == { m \in FieldElems : FieldType(GS, m) = FTYPE_FLAME }

\* A flame has a running timer and a frame count of 1..4, and a field
\* element with a running timer is a flame or a bricked wall
FlamesAreTimed ==
    \A m \in FieldElems :
       /\ FieldType(GS, m) = FTYPE_FLAME => ttlField[m] > 0 /\ aniField[m] \in 1..4
       /\ ttlField[m] > 0 => FieldType(GS, m) \in {FTYPE_BRICKED, FTYPE_FLAME}

\* A tick takes one off the frame count of flame m, which is above 1
BurnsDown(m) ==
    /\ aniField'[m] = aniField[m] - 1
    /\ fTypeMap(gameFieldLow'[m]) = FTYPE_FLAME

\* C36 as stated: a flame has a running timer and a frame count of 1..4, a
\* field element with a running timer is a flame or a bricked wall, and
\* every tick takes one off the frame count of a flame and leaves a flame
\* in its last frame empty: a flame with frame count k is empty k ticks
\* later.
C36_FlameEmptyInFourTicks ==
    [][ /\ FlamesAreTimed
        /\ screen = S_GAME /\ TickDue =>
             \A m \in Flames :
                IF aniField[m] > 1 THEN BurnsDown(m)
                ELSE fTypeMap(gameFieldLow'[m]) = FTYPE_EMPTY ]_vars

\* C36 as amended: a flame has a running timer and a frame count of 1..4,
\* a field element with a running timer is a flame or a bricked wall, and
\* every tick takes one off the frame count of a flame; the decay of the
\* tick clears a flame in its last frame, which is empty after the tick
\* unless an explosion of the same tick has reached it: then it is a new
\* flame with frame count 4. No ignition burns longer than four ticks.
C36_FlameClearedInFourTicks ==
    [][ /\ FlamesAreTimed
        /\ screen = S_GAME /\ TickDue =>
             \A m \in Flames :
                IF aniField[m] > 1 THEN BurnsDown(m)
                ELSE /\ decayField(gameFieldLow[m], gameFieldHigh[m], aniField[m],
                                   ttlField[m], 0, dropRate255)
                          = [low |-> FIELD_EMPTY, high |-> TILE_ATTR(0, 0, 1, 3),
                             ani |-> 0, ttl |-> 0]
                     /\ IF m \in visited'
                        THEN /\ fTypeMap(gameFieldLow'[m]) = FTYPE_FLAME
                             /\ aniField'[m] = 4
                             /\ ttlField'[m] = EXPLOSION_ANIMATION
                        ELSE /\ gameFieldLow'[m] = FIELD_EMPTY
                             /\ aniField'[m] = 0
                             /\ ttlField'[m] = 0 ]_vars

\* Elements the bomb at (6,4) sets aflame and the bomb at (2,8) does not reach
FirstFlames == {At(4, 4), At(6, 4), At(8, 4), At(6, 6)}

\* Player 2's bomb has exploded in the tick that ended the flames of
\* player 1's bomb: (6,8) burns anew with frame count 4 while the other
\* flames of player 1's bomb are gone.
C36_RekindledSeen ==
    /\ exploded = << [x |-> 2, y |-> 8, range |-> 3] >>
    /\ At(6, 8) \in visited
    /\ FieldType(GS, At(6, 8)) = FTYPE_FLAME
    /\ aniField[At(6, 8)] = 4
    /\ \A m \in FirstFlames : gameFieldLow[m] = FIELD_EMPTY /\ aniField[m] = 0
    /\ aniField[At(4, 8)] = 4

\* The flames of player 1's bomb have burnt down while player 2's bomb
\* is still to explode: all their elements are empty.
C36_BurntDownSeen ==
    /\ exploded = << >>
    /\ framesUntil10Hz = FP10HZ
    /\ LiveBombs(p1) = {}
    /\ LiveBombs(p2) = {0}
    /\ p2.bombList[0].ttl = 1
    /\ Flames = {}
    /\ \A m \in FieldElems : ttlField[m] = 0


(***************************************************************************)
(* C37                                                                     *)
(***************************************************************************)
\* The round: winner, the tiles and timers of the field elements, the
\* players with their bombs, the chain queue and the clocks
roundVars ==
    << winner, gameFieldLow, gameFieldHigh, aniField, ttlField, p1, p2, bombChain,
       bombChainCount, gameOver, framesUntil10Hz, untilSecond, counter10Hz >>

\* C37: winner is set only by a frame of the game screen, and that frame
\* ends on the winner screen, whether or not a pad asked for a pause in
\* it; while winner is set the screen is the winner screen, the options
\* screen or the title screen, so no frame of the game or of the pause
\* screen runs, and the round is left as it is until the options screen
\* starts a new round, which clears winner.
C37_WinnerEndsRound ==
    [][ /\ (winner = WINNER_NA /\ winner' # WINNER_NA) =>
             screen = S_GAME /\ screen' = S_WINNER
        /\ winner # WINNER_NA =>
             /\ screen \in {S_TITLE, S_OPTIONS, S_WINNER}
             /\ screen' # S_PAUSE
             /\ IF screen' = S_GAME
                THEN screen = S_OPTIONS /\ winner' = WINNER_NA
                ELSE UNCHANGED roundVars
      ]_vars

\* The round has timed out in a frame in which pad 0 asked for a pause:
\* the pause was noted, and the screen is the winner screen.
C37_WinnerOverPauseSeen ==
    /\ pad0 = {"START"}
    /\ pausePad = "pad0"
    /\ winner = WINNER_DRAW
    /\ gameOver = 0
    /\ screen = S_WINNER
    /\ framesUntil10Hz = FP10HZ

\* The same with the pause asked for by pad 1.
C37_WinnerOverPause1Seen ==
    /\ pad0 = {}
    /\ pad1 = {"START"}
    /\ pausePad = "pad1"
    /\ winner = WINNER_DRAW
    /\ screen = S_WINNER
    /\ framesUntil10Hz = FP10HZ

\* The options screen, entered from the winner screen, holds the round
\* as it ended.
C37_EndedRoundKeptSeen ==
    /\ screen = S_OPTIONS
    /\ winner = WINNER_DRAW
    /\ gameOver = 0
    /\ pad0 = {"START"}


(***************************************************************************)
(* C38                                                                     *)
(***************************************************************************)
\* The input, in the frame that ends in the next state, of the pad that
\* asked for the pause
PausePadInput == IF pausePad = "pad0" THEN pad0' ELSE pad1'

\* C38: a frame of the game screen that pauses the game notes the pad
\* that pressed START, pad 0 if both did; a frame of the pause screen
\* leaves for the options screen exactly when pad 0 asked for the pause
\* and presses SELECT, resumes the game exactly when it does not leave and
\* the pad that asked for the pause presses START, and stays paused
\* otherwise, whatever the other pad presses.
C38_PauseOwnedByPad ==
    [][ /\ (screen = S_GAME /\ screen' = S_PAUSE) =>
             /\ "START" \in (pad0' \cup pad1')
             /\ pausePad' = IF "START" \in pad0' THEN "pad0" ELSE "pad1"
        /\ screen = S_PAUSE =>
             /\ pausePad \in {"pad0", "pad1"}
             /\ pausePad' = pausePad
             /\ screen' =
                  IF pausePad = "pad0" /\ "SELECT" \in pad0' THEN S_OPTIONS
                  ELSE IF "START" \in PausePadInput THEN S_GAME
                  ELSE S_PAUSE
      ]_vars

\* The game paused by pad 1 has stayed paused when pad 0 pressed START.
C38_OtherStartIgnoredSeen ==
    /\ screen = S_PAUSE
    /\ pausePad = "pad1"
    /\ pad0 = {"START"}
    /\ pad1 = {}

\* The game paused by pad 1 has stayed paused when pad 0 pressed SELECT.
C38_SelectIgnoredSeen ==
    /\ screen = S_PAUSE
    /\ pausePad = "pad1"
    /\ pad0 = {"SELECT"}

\* The game paused by pad 0 has stayed paused when pad 1 pressed START
\* or SELECT.
C38_OtherPadIgnoredSeen ==
    /\ screen = S_PAUSE
    /\ pausePad = "pad0"
    /\ "START" \notin pad0
    /\ "SELECT" \notin pad0
    /\ pad1 # {}

\* Both pads pressed START in a frame of the game: pad 0 has the pause.
C38_Pad0FirstSeen ==
    /\ screen = S_PAUSE
    /\ pausePad = "pad0"
    /\ pad0 = {"START"}
    /\ pad1 = {"START"}

\* Pad 1 has resumed the game it paused.
C38_ResumedByPad1Seen ==
    /\ screen = S_GAME
    /\ pausePad = "pad1"
    /\ pad1 = {"START"}
    /\ pad0 = {"SELECT"}

\* Pad 0 has left the game it paused for the options screen.
C38_AbandonedSeen ==
    /\ screen = S_OPTIONS
    /\ pausePad = "pad0"
    /\ pad0 = {"SELECT"}
    /\ pad1 = {"START"}


(***************************************************************************)
(* C39                                                                     *)
(***************************************************************************)
\* The slots of player n whose bomb has one tick left
ExpiringSlots(n) == { i \in LiveBombs(CurPl(n)) : CurPl(n).bombList[i].ttl = 1 }

\* C39: a bomb whose timer runs out in a tick explodes in that tick at its
\* position with the range its owner has at the tick, a range power-up
\* taken in an earlier frame included: the bomb has no range of its own.
C39_ExpiryUsesCurrentRange ==
    [][ TickDue =>
          \A n \in Players : \A i \in ExpiringSlots(n) :
             LET b == CurPl(n).bombList[i]
             IN  /\ \E k \in 1..Len(exploded') :
                       exploded'[k] = [x |-> b.x, y |-> b.y, range |-> CurPl(n).range]
                 /\ NextPl(n).bombList[i].ttl \in {0, BOMB_TTL} ]_vars

\* Player 1, of range 2 when its bomb at (10,12) was burning, has taken
\* the range power-up since: the bomb has exploded with range 3 in the
\* second tick and the wall three steps to its right burns.
C39_EnlargedSeen ==
    /\ exploded = << [x |-> 10, y |-> 12, range |-> 3] >>
    /\ p1.range = 3
    /\ gameFieldLow[At(4, 4)] = FIELD_EMPTY
    /\ counter10Hz = 10 * DEF_MAX_TIME - TicksLeft + 2
    /\ At(10, 6) \in visited
    /\ gameFieldLow[At(10, 6)] # FIELD_EMPTY

====
